---- MODULE Spec2Model ----
(***************************************************************************)
(* A model of wlctl's station mode: the deduplication of scanned access    *)
(* points (nm/wifi.rs), the reconciliation of the scan with the saved      *)
(* profiles and the selection-preserving merge (mode/station.rs), and the  *)
(* connect / disconnect decisions of the key handler (handler.rs,          *)
(* mode/station/network.rs), the credential agent (agent.rs), the          *)
(* passphrase modal and the foreground calls App::tick / key handler.      *)
(*                                                                         *)
(* Option<T> is modelled as a sequence: None is <<>>, Some(v) is <<v>>.    *)
(***************************************************************************)
EXTENDS Integers, Sequences, FiniteSets, TLC

VARIABLES
    call_args,  \* the arguments of the function applied (function specifications)
    call_ret,   \* Some(its return value) once it has been applied
    station,    \* app.device.station: Option<Station>
    fetched,    \* the record of the last pass of Station::new / Station::refresh
    app,        \* the fields of App the key handler reads and writes
    handler,    \* the foreground handler suspended at an await, None when there is none
    toggles,    \* what each toggle_connect so far was invoked on
    tasks,      \* the tasks spawned with tokio::spawn (each a Network::connect)
    calls,      \* the calls made to the service, in the order they were issued
    events,     \* the events sent on the app's event channel, in order
    channels,   \* the messages queued in the AuthAgent's channels
    waits,      \* the tasks that called one of the agent's wait_for_ functions
    modal_keys  \* what each Enter / Esc in the passphrase modal so far was pressed on

fnVars == <<call_args, call_ret>>
stationVars == <<station, fetched>>
ioVars == <<handler, toggles, tasks, calls, events, modal_keys>>
agentVars == <<channels, waits>>
vars == <<call_args, call_ret, station, fetched, app, handler, toggles, tasks, calls, events,
          channels, waits, modal_keys>>

None == <<>>
Some(v) == <<v>>
IsSome(o) == o /= <<>>
Unwrap(o) == o[1]

\* No handler is suspended, nothing was spawned, called or sent.
\* AuthAgent::new: the three channels are created empty (agent.rs 29-47). The cancel
\* channel carries unit messages, so its queue is a count. reset_since_cancel is history:
\* whether reset() has run since the last cancel().
NoMessages ==
    [passphrase |-> <<>>, username_password |-> <<>>, cancel |-> 0,
     reset_since_cancel |-> TRUE]

\* No handler is suspended, nothing was spawned, called or sent, nobody waits.
IoIdle ==
    /\ handler = None
    /\ toggles = <<>>
    /\ tasks = <<>>
    /\ calls = <<>>
    /\ events = <<>>
    /\ channels = NoMessages
    /\ waits = <<>>
    /\ modal_keys = <<>>

\* ------------------------------------------------------------------ bounds

\* Longest raw access-point list the service hands to get_visible_networks.
MaxScanLen == 3
\* Largest signal strength an access point reports (u8 in the source).
MaxStrength == 3

\* ------------------------------------------------------------------ data

\* SSIDs of the modelled radio environment; "" is a hidden beacon.
HiddenSsid == ""
Ssids == {"A", "B"}

Range(s) == {s[i] : i \in DOMAIN s}

\* All sequences over S whose length is at most n.
SeqsUpTo(S, n) == UNION {[1..k -> S] : k \in 0..n}

\* What get_access_point_info returns for one access point: Err (ok = FALSE) or
\* Ok(AccessPointInfo); the object path is filled in by RawScans.
ApReadings(ssids, strengths, securities) ==
    {[ok |-> TRUE, ssid |-> s, strength |-> g, security |-> t] :
        s \in ssids, g \in strengths, t \in securities}
    \cup {[ok |-> FALSE, ssid |-> HiddenSsid, strength |-> 0, security |-> "Open"]}

\* The raw scans of length at most n: the i-th access point has object path i.
RawScans(n, ssids, strengths, securities) ==
    UNION {{[i \in 1..k |->
                [path |-> i, ok |-> f[i].ok, ssid |-> f[i].ssid,
                 strength |-> f[i].strength, security |-> f[i].security]] :
            f \in [1..k -> ApReadings(ssids, strengths, securities)]} : k \in 0..n}

AccessPointInfo(r) ==
    [path |-> r.path, ssid |-> r.ssid, strength |-> r.strength, security |-> r.security]

\* ------------------------------------------------- NMClient::get_visible_networks

\* Index of the first element of list whose ssid is ssid, 0 when there is none
\* (Iterator::find / Iterator::position).
FindSsid(list, ssid) ==
    IF \E i \in DOMAIN list : list[i].ssid = ssid
    THEN CHOOSE i \in DOMAIN list :
            /\ list[i].ssid = ssid
            /\ \A j \in DOMAIN list : list[j].ssid = ssid => i <= j
    ELSE 0

\* A plausible slip: a later duplicate replaces the kept entry whatever its strength.
DedupStepLastWins(networks, ap) ==
    IF ~ap.ok \/ ap.ssid = HiddenSsid THEN networks
    ELSE LET i == FindSsid(networks, ap.ssid) IN
         IF i /= 0 THEN [networks EXCEPT ![i] = AccessPointInfo(ap)]
         ELSE Append(networks, AccessPointInfo(ap))

\* One iteration of the loop of get_visible_networks over the access point ap.
DedupStep(networks, ap) ==
    IF ~ap.ok THEN networks
    ELSE IF ap.ssid = HiddenSsid THEN networks
    ELSE LET i == FindSsid(networks, ap.ssid) IN
         IF i /= 0
         THEN IF ap.strength > networks[i].strength
              THEN [networks EXCEPT ![i] = AccessPointInfo(ap)]
              ELSE networks
         ELSE Append(networks, AccessPointInfo(ap))

RECURSIVE Dedup(_, _)
Dedup(aps, networks) ==
    IF aps = <<>> THEN networks
    ELSE Dedup(Tail(aps), DedupStep(networks, Head(aps)))

\* Stable insertion of x into a list sorted by strength, strongest first.
RECURSIVE InsertByStrength(_, _)
InsertByStrength(sorted, x) ==
    IF sorted = <<>> THEN <<x>>
    ELSE IF Head(sorted).strength >= x.strength
         THEN <<Head(sorted)>> \o InsertByStrength(Tail(sorted), x)
         ELSE <<x>> \o sorted

\* networks.sort_by(|a, b| b.strength.cmp(&a.strength)): a stable sort.
RECURSIVE SortByStrength(_, _)
SortByStrength(list, sorted) ==
    IF list = <<>> THEN sorted
    ELSE SortByStrength(Tail(list), InsertByStrength(sorted, Head(list)))

get_visible_networks(aps) == SortByStrength(Dedup(aps, <<>>), <<>>)

\* ------------------------------------------------- specification: get_visible_networks

VisibleInputs == RawScans(MaxScanLen, Ssids \cup {HiddenSsid}, 1..MaxStrength, {"WPA2"})

InitVisible ==
    /\ call_args \in VisibleInputs
    /\ call_ret = None
    /\ station = None
    /\ fetched = None
    /\ app = None
    /\ IoIdle

CallGetVisibleNetworks ==
    /\ call_ret = None
    /\ call_ret' = Some(get_visible_networks(call_args))
    /\ UNCHANGED <<call_args, station, fetched, app, ioVars, agentVars>>

NextVisible == CallGetVisibleNetworks

SpecVisible == InitVisible /\ [][NextVisible]_vars

\* The readable, named access points of a raw scan.
NamedAps(aps) == {AccessPointInfo(aps[i]) : i \in {j \in DOMAIN aps : aps[j].ok /\ aps[j].ssid /= HiddenSsid}}

\* C1: get_visible_networks returns exactly one entry per distinct non-empty
\* SSID of the scanned access points, that entry is one of the scanned access
\* points with that SSID and has the maximal strength among them, and no
\* returned entry has an empty SSID.
C1_OnePerSsidStrongest ==
    IsSome(call_ret) =>
        LET out == Unwrap(call_ret)
            inp == NamedAps(call_args)
        IN /\ {out[i].ssid : i \in DOMAIN out} = {a.ssid : a \in inp}
           /\ \A i, j \in DOMAIN out : out[i].ssid = out[j].ssid => i = j
           /\ \A i \in DOMAIN out :
                /\ out[i] \in inp
                /\ out[i].ssid /= HiddenSsid
                /\ \A a \in inp : a.ssid = out[i].ssid => a.strength <= out[i].strength

\* A scan with a weaker duplicate after a stronger one, a hidden beacon and an
\* unreadable access point has been deduplicated.
C1_Witness ==
    /\ IsSome(call_ret)
    /\ \E i, j \in DOMAIN call_args :
        /\ i < j
        /\ call_args[i].ok /\ call_args[j].ok
        /\ call_args[i].ssid = call_args[j].ssid
        /\ call_args[i].ssid /= HiddenSsid
        /\ call_args[i].strength > call_args[j].strength
    /\ \E i \in DOMAIN call_args : ~call_args[i].ok \/ call_args[i].ssid = HiddenSsid
    /\ Len(Unwrap(call_ret)) = 1

\* ------------------------------------------------- saved profiles and view-models

\* Security class every access point of an SSID advertises in the modelled environment.
SecurityOf(ssid) == IF ssid = "A" THEN "WPA2" ELSE "Open"

\* Security class get_wifi_connections derives for a saved profile of an SSID.
ProfileSecurityOf(ssid) == IF ssid = "A" THEN "WPA" ELSE "Open"

\* The lists get_wifi_connections can return with at most n profiles: the i-th
\* profile has connection path i; several profiles may share one SSID.
SavedLists(n, ssids) ==
    UNION {{[i \in 1..k |->
                [path |-> i, ssid |-> f[i].ssid, autoconnect |-> f[i].autoconnect,
                 security |-> ProfileSecurityOf(f[i].ssid)]] :
            f \in [1..k -> [ssid : ssids, autoconnect : BOOLEAN]]} : k \in 0..n}

\* KnownNetwork::from_connection_info.
from_connection_info(info) ==
    [connection_path |-> info.path, name |-> info.ssid,
     network_type |-> info.security, is_autoconnect |-> info.autoconnect]

\* Network::from_access_point.
from_access_point(ap_info, known_network, is_connected) ==
    [ap_path |-> ap_info.path, name |-> ap_info.ssid, network_type |-> ap_info.security,
     is_connected |-> is_connected, known_network |-> known_network,
     signal_strength |-> ap_info.strength]

\* ------------------------------------------------- Station::categorize_networks

\* A plausible slip: the connected access point is recorded as connected_network
\* and then left out of both lists.
CategorizeStepSkipsConnected(acc, ap_info, saved_connections, connected_ssid) ==
    LET is_connected == Some(ap_info.ssid) = connected_ssid
        k == FindSsid(saved_connections, ap_info.ssid)
        known_network == IF k /= 0 THEN Some(from_connection_info(saved_connections[k])) ELSE None
        network == from_access_point(ap_info, known_network, is_connected)
        row == [net |-> network, signal |-> ap_info.strength * 100]
    IN IF is_connected
       THEN [acc EXCEPT !.connected_network = Some(network)]
       ELSE IF IsSome(known_network)
            THEN [acc EXCEPT !.known_networks = Append(@, row)]
            ELSE [acc EXCEPT !.new_networks = Append(@, row)]

\* One iteration of the loop of categorize_networks over the access point ap_info.
CategorizeStep(acc, ap_info, saved_connections, connected_ssid) ==
    LET is_connected == Some(ap_info.ssid) = connected_ssid
        signal == ap_info.strength * 100
        k == FindSsid(saved_connections, ap_info.ssid)
        known_network == IF k /= 0 THEN Some(from_connection_info(saved_connections[k])) ELSE None
        network == from_access_point(ap_info, known_network, is_connected)
        row == [net |-> network, signal |-> signal]
    IN [new_networks |->
            IF IsSome(known_network) THEN acc.new_networks ELSE Append(acc.new_networks, row),
        known_networks |->
            IF IsSome(known_network) THEN Append(acc.known_networks, row) ELSE acc.known_networks,
        connected_network |->
            IF is_connected THEN Some(network) ELSE acc.connected_network]

RECURSIVE CategorizeLoop(_, _, _, _)
CategorizeLoop(acc, visible_networks, saved_connections, connected_ssid) ==
    IF visible_networks = <<>> THEN acc
    ELSE CategorizeLoop(
            CategorizeStep(acc, Head(visible_networks), saved_connections, connected_ssid),
            Tail(visible_networks), saved_connections, connected_ssid)

categorize_networks(visible_networks, saved_connections, connected_ssid) ==
    CategorizeLoop(
        [new_networks |-> <<>>, known_networks |-> <<>>, connected_network |-> None],
        visible_networks, saved_connections, connected_ssid)

\* ------------------------------------------------- specification: categorize_networks

\* Longest access-point list handed to categorize_networks.
MaxVisible == 2
\* Largest number of saved wifi profiles the service returns.
MaxSaved == 2

\* Lists of readable, named access points with distinct object paths; several
\* may share an SSID (the function itself does not require a deduplicated list).
VisibleLists(n, strengths) ==
    UNION {{[i \in 1..k |->
                [path |-> i, ssid |-> f[i].ssid, strength |-> f[i].strength,
                 security |-> SecurityOf(f[i].ssid)]] :
            f \in [1..k -> [ssid : Ssids, strength : strengths]]} : k \in 0..n}

ConnectedSsids == {None} \cup {Some(s) : s \in Ssids}

InitCategorize ==
    /\ call_args \in [visible_networks : VisibleLists(MaxVisible, 1..MaxStrength),
                      saved_connections : SavedLists(MaxSaved, Ssids),
                      connected_ssid : ConnectedSsids]
    /\ call_ret = None
    /\ station = None
    /\ fetched = None
    /\ app = None
    /\ IoIdle

CallCategorizeNetworks ==
    /\ call_ret = None
    /\ call_ret' = Some(categorize_networks(call_args.visible_networks,
                                            call_args.saved_connections,
                                            call_args.connected_ssid))
    /\ UNCHANGED <<call_args, station, fetched, app, ioVars, agentVars>>

NextCategorize == CallCategorizeNetworks

SpecCategorize == InitCategorize /\ [][NextCategorize]_vars

\* The rows of list built from the access point with object path p.
RowsOf(list, p) == {i \in DOMAIN list : list[i].net.ap_path = p}

\* C3: categorize_networks places every scanned access point in exactly one of
\* the two lists: in the known list iff some saved profile has its SSID, and
\* then its Network carries a saved profile of that SSID; otherwise in the new
\* list with no profile attached. No access point is dropped or listed twice.
C3_PartitionByProfile ==
    IsSome(call_ret) =>
        LET visible == call_args.visible_networks
            saved == call_args.saved_connections
            out == Unwrap(call_ret)
        IN /\ Len(out.new_networks) + Len(out.known_networks) = Len(visible)
           /\ \A i \in DOMAIN visible :
                LET ap == visible[i]
                    inKnown == RowsOf(out.known_networks, ap.path)
                    inNew == RowsOf(out.new_networks, ap.path)
                IN IF \E k \in DOMAIN saved : saved[k].ssid = ap.ssid
                   THEN /\ Cardinality(inKnown) = 1 /\ inNew = {}
                        /\ \A r \in inKnown :
                            LET net == out.known_networks[r].net IN
                            /\ net.name = ap.ssid
                            /\ IsSome(net.known_network)
                            /\ \E k \in DOMAIN saved :
                                /\ saved[k].ssid = ap.ssid
                                /\ Unwrap(net.known_network).connection_path = saved[k].path
                                /\ Unwrap(net.known_network).name = saved[k].ssid
                                /\ Unwrap(net.known_network).is_autoconnect = saved[k].autoconnect
                   ELSE /\ Cardinality(inNew) = 1 /\ inKnown = {}
                        /\ \A r \in inNew :
                            /\ out.new_networks[r].net.name = ap.ssid
                            /\ out.new_networks[r].net.known_network = None

\* The spec's scenario shape: two access points, one with a saved profile and
\* one without, the connected one among them, have been categorized.
C3_Witness ==
    /\ IsSome(call_ret)
    /\ Len(Unwrap(call_ret).known_networks) = 1
    /\ Len(Unwrap(call_ret).new_networks) = 1
    /\ IsSome(Unwrap(call_ret).connected_network)
    /\ Len(call_args.saved_connections) = 2

\* ------------------------------------------------- Station: reconciliation helpers

\* Index of the first row of rows whose network is named name, 0 when there is none.
FindName(rows, name) ==
    IF \E i \in DOMAIN rows : rows[i].net.name = name
    THEN CHOOSE i \in DOMAIN rows :
            /\ rows[i].net.name = name
            /\ \A j \in DOMAIN rows : rows[j].net.name = name => i <= j
    ELSE 0

Names(rows) == {rows[i].net.name : i \in DOMAIN rows}

\* A plausible slip: every saved profile is reported unavailable, visible or not.
find_unavailable_networks_all(known_networks, saved_connections) ==
    [i \in DOMAIN saved_connections |-> from_connection_info(saved_connections[i])]

\* Station::find_unavailable_networks.
find_unavailable_networks(known_networks, saved_connections) ==
    LET visible_ssids == Names(known_networks)
        kept == SelectSeq(saved_connections, LAMBDA conn : conn.ssid \notin visible_ssids)
    IN [i \in DOMAIN kept |-> from_connection_info(kept[i])]

\* A plausible slip: the first row is selected also when there is none.
table_state_for_always_first(items) == Some(0)

\* Station::table_state_for: the selected index (0-based as in the source).
table_state_for(items) == IF items = <<>> THEN None ELSE Some(0)

\* The same_set test of update_network_list and update_known_network_list.
same_set(current, fresh) ==
    /\ Len(current) = Len(fresh)
    /\ \A i \in DOMAIN current : \E j \in DOMAIN fresh : fresh[j].net.name = current[i].net.name

\* A plausible slip: the merge also resets the selection to the first row.
update_network_list_resets(current, state, fresh) ==
    IF same_set(current, fresh)
    THEN [list |-> [i \in DOMAIN current |->
                        [current[i] EXCEPT !.signal = fresh[FindName(fresh, current[i].net.name)].signal]],
          state |-> table_state_for(fresh)]
    ELSE [list |-> fresh, state |-> table_state_for(fresh)]

\* Station::update_network_list, applied to a list and its table state.
update_network_list(current, state, fresh) ==
    IF same_set(current, fresh)
    THEN [list |-> [i \in DOMAIN current |->
                        LET j == FindName(fresh, current[i].net.name) IN
                        IF j /= 0 THEN [current[i] EXCEPT !.signal = fresh[j].signal]
                        ELSE current[i]],
          state |-> state]
    ELSE [list |-> fresh, state |-> table_state_for(fresh)]

\* The per-row update of update_known_network_list on the same-set path.
sync_known_row(row, fresh) ==
    LET j == FindName(fresh, row.net.name) IN
    IF j = 0 THEN row
    ELSE LET refreshed_net == fresh[j].net
             net == IF IsSome(row.net.known_network) /\ IsSome(refreshed_net.known_network)
                    THEN [row.net EXCEPT !.known_network =
                            Some([Unwrap(row.net.known_network) EXCEPT !.is_autoconnect =
                                    Unwrap(refreshed_net.known_network).is_autoconnect])]
                    ELSE row.net
         IN [net |-> net, signal |-> fresh[j].signal]

\* A plausible slip: a stale list is kept whenever its length matches the fresh one.
update_known_network_list_by_len(current, state, fresh) ==
    IF Len(current) = Len(fresh)
    THEN [list |-> [i \in DOMAIN current |-> sync_known_row(current[i], fresh)], state |-> state]
    ELSE [list |-> fresh, state |-> table_state_for(fresh)]

\* Station::update_known_network_list.
update_known_network_list(current, state, fresh) ==
    IF same_set(current, fresh)
    THEN [list |-> [i \in DOMAIN current |-> sync_known_row(current[i], fresh)], state |-> state]
    ELSE [list |-> fresh, state |-> table_state_for(fresh)]

\* StationState::from(DeviceState).
StationStateFrom(device_state) ==
    CASE device_state = "Activated" -> "Connected"
      [] device_state \in {"Prepare", "Config", "NeedAuth", "IpConfig", "IpCheck", "Secondaries"}
            -> "Connecting"
      [] device_state = "Deactivating" -> "Disconnecting"
      [] OTHER -> "Disconnected"

\* Station::fetch_diagnostic once get_active_access_point has answered Ok(active_ap):
\* active_ap is None, or Some(reading) of the active access point.
fetch_diagnostic(is_connected, active_ap) ==
    IF ~is_connected THEN None
    ELSE IF IsSome(active_ap) /\ Unwrap(active_ap).ok
         THEN Some([signal_strength |-> Unwrap(active_ap).strength,
                    security |-> Unwrap(active_ap).security])
         ELSE None

\* ------------------------------------------------- Station::new and Station::refresh

\* The service's answers to one pass of Station::new / Station::refresh:
\*   fail            the fetch that returns Err ("none" when all succeed)
\*   device_state    get_device_state
\*   ethernet        has_active_ethernet_connection: [ok, val]
\*   connected_ssid  get_connected_ssid
\*   aps             get_access_points + get_access_point_info (the raw scan)
\*   saved           get_wifi_connections
\*   active_ap       get_active_access_point + get_access_point_info in fetch_diagnostic
FailPoints == {"none", "device_state", "connected_ssid", "visible_networks",
               "saved_connections", "diagnostic"}

\* The reconciliation of Station::new and Station::refresh (station.rs 91-95, 135-148).
reconcile(fx) ==
    LET visible_networks == get_visible_networks(fx.aps)
        cat == categorize_networks(visible_networks, fx.saved, fx.connected_ssid)
    IN cat

\* fetch_diagnostic returns Err: the station is connected and get_active_access_point fails.
diagnostic_fails(fx, connected_network) == fx.fail = "diagnostic" /\ IsSome(connected_network)

\* Station::new(...).ok(): None when a fetch fails.
StationNew(fx) ==
    LET cat == reconcile(fx) IN
    IF fx.fail \in {"device_state", "connected_ssid", "visible_networks", "saved_connections"}
       \/ diagnostic_fails(fx, cat.connected_network)
    THEN None
    ELSE Some([state |-> StationStateFrom(fx.device_state),
               is_scanning |-> FALSE,
               connected_network |-> cat.connected_network,
               is_ethernet_connected |-> fx.ethernet.ok /\ fx.ethernet.val,
               new_networks_state |-> table_state_for(cat.new_networks),
               new_networks |-> cat.new_networks,
               new_hidden_networks |-> <<>>,
               known_networks_state |-> table_state_for(cat.known_networks),
               known_networks |-> cat.known_networks,
               unavailable_known_networks |->
                    find_unavailable_networks(cat.known_networks, fx.saved),
               diagnostic |-> fetch_diagnostic(IsSome(cat.connected_network), fx.active_ap),
               show_unavailable_known_networks |-> FALSE,
               show_hidden_networks |-> FALSE])

\* The branch a list update takes: the same-set merge or the replacement.
MergePath(current, fresh) == IF same_set(current, fresh) THEN "merged" ELSE "replaced"

\* A plausible slip: a pass that fails after the device state was read forgets the
\* connection.
refresh_clears_on_error(st, fx) ==
    IF fx.fail = "device_state"
    THEN [station |-> st, result |-> "Err", new_path |-> "none", known_path |-> "none"]
    ELSE
    LET s1 == [st EXCEPT !.state = StationStateFrom(fx.device_state),
                         !.is_ethernet_connected = fx.ethernet.ok /\ fx.ethernet.val]
    IN
    IF fx.fail \in {"connected_ssid", "visible_networks", "saved_connections"}
    THEN [station |-> [s1 EXCEPT !.connected_network = None, !.diagnostic = None],
          result |-> "Err", new_path |-> "none", known_path |-> "none"]
    ELSE
    LET cat == reconcile(fx)
        new == update_network_list(s1.new_networks, s1.new_networks_state, cat.new_networks)
        known == update_known_network_list(s1.known_networks, s1.known_networks_state,
                                           cat.known_networks)
        s2 == [s1 EXCEPT !.new_networks = new.list,
                         !.new_networks_state = new.state,
                         !.known_networks = known.list,
                         !.known_networks_state = known.state,
                         !.unavailable_known_networks =
                                find_unavailable_networks(known.list, fx.saved),
                         !.connected_network = cat.connected_network]
        new_path == MergePath(s1.new_networks, cat.new_networks)
        known_path == MergePath(s1.known_networks, cat.known_networks)
    IN
    IF diagnostic_fails(fx, s2.connected_network)
    THEN [station |-> s2, result |-> "Err", new_path |-> new_path, known_path |-> known_path]
    ELSE [station |-> [s2 EXCEPT !.diagnostic =
                            fetch_diagnostic(IsSome(s2.connected_network), fx.active_ap)],
          result |-> "Ok", new_path |-> new_path, known_path |-> known_path]

\* Station::refresh on the station st: the station it leaves, the Result it returns and
\* the branch each list update took ("none" when the pass failed before the updates).
refresh(st, fx) ==
    IF fx.fail = "device_state"
    THEN [station |-> st, result |-> "Err", new_path |-> "none", known_path |-> "none"]
    ELSE
    LET s1 == [st EXCEPT !.state = StationStateFrom(fx.device_state),
                         !.is_ethernet_connected = fx.ethernet.ok /\ fx.ethernet.val]
    IN
    IF fx.fail \in {"connected_ssid", "visible_networks", "saved_connections"}
    THEN [station |-> s1, result |-> "Err", new_path |-> "none", known_path |-> "none"]
    ELSE
    LET cat == reconcile(fx)
        new == update_network_list(s1.new_networks, s1.new_networks_state, cat.new_networks)
        known == update_known_network_list(s1.known_networks, s1.known_networks_state,
                                           cat.known_networks)
        s2 == [s1 EXCEPT !.new_networks = new.list,
                         !.new_networks_state = new.state,
                         !.known_networks = known.list,
                         !.known_networks_state = known.state,
                         !.unavailable_known_networks =
                                find_unavailable_networks(known.list, fx.saved),
                         !.connected_network = cat.connected_network]
        new_path == MergePath(s1.new_networks, cat.new_networks)
        known_path == MergePath(s1.known_networks, cat.known_networks)
    IN
    IF diagnostic_fails(fx, s2.connected_network)
    THEN [station |-> s2, result |-> "Err", new_path |-> new_path, known_path |-> known_path]
    ELSE [station |-> [s2 EXCEPT !.diagnostic =
                            fetch_diagnostic(IsSome(s2.connected_network), fx.active_ap)],
          result |-> "Ok", new_path |-> new_path, known_path |-> known_path]

\* The record of the last pass of Station::new ("new") or Station::refresh ("refresh"):
\* the answers it was given, the Result it returned and the branch each list update took.
Fetched(op, fx, result, new_path, known_path) ==
    [op |-> op, fx |-> fx, result |-> result, new_path |-> new_path, known_path |-> known_path]

\* ------------------------------------------------- specification: refresh ticks and the known table

\* Longest raw scan a refresh tick reads.
MaxAps == 2
\* Largest strength an access point reports in a refresh tick.
MaxSignal == 2

\* The neighbourhood of a tick: one access point per SSID, at a fixed object path;
\* the access point of "A" varies in strength, the one of "B" does not.
ApPathOf(ssid) == IF ssid = "A" THEN 1 ELSE 2
TickStrengths(ssid) == IF ssid = "A" THEN 1..MaxSignal ELSE {1}

\* Raw scans of a tick: the access points in range, in the order the service lists them.
TickScans ==
    {[i \in DOMAIN s |-> [s[i] EXCEPT !.path = ApPathOf(s[i].ssid)]] :
        s \in {r \in RawScans(MaxAps, Ssids, 1..MaxSignal, {"Open", "WPA2"}) :
            /\ \A i \in DOMAIN r : /\ r[i].ok
                                   /\ r[i].security = SecurityOf(r[i].ssid)
                                   /\ r[i].strength \in TickStrengths(r[i].ssid)
            /\ \A i, j \in DOMAIN r : r[i].ssid = r[j].ssid => i = j}}

\* Saved profiles of a tick: at most one profile per SSID, at a fixed object path;
\* the autoconnect flag of the profile of "A" varies, the one of "B" is set.
ProfilePathOf(ssid) == IF ssid = "A" THEN 1 ELSE 2
TickSaved ==
    {[i \in DOMAIN s |-> [s[i] EXCEPT !.path = ProfilePathOf(s[i].ssid)]] :
        s \in {r \in SavedLists(MaxSaved, Ssids) :
            /\ \A i \in DOMAIN r : r[i].ssid = "B" => r[i].autoconnect
            /\ \A i, j \in DOMAIN r : r[i].ssid = r[j].ssid => i = j}}

EthernetAnswers == {[ok |-> TRUE, val |-> TRUE], [ok |-> TRUE, val |-> FALSE]}

\* The service's answers in a tick in which every fetch succeeds and the device
\* has no active access point.
TickInputs ==
    [fail : {"none"},
     device_state : {"Disconnected"},
     ethernet : EthernetAnswers,
     connected_ssid : {None},
     aps : TickScans,
     saved : TickSaved,
     active_ap : {None}]

\* HiddenSsidDialog::default (mode/station/auth/hidden.rs 28-38); the inputs hold the
\* characters typed.
HiddenSsidDialogDefault ==
    [ssid |-> <<>>, password |-> <<>>, security |-> "WPA2", focused_field |-> "Ssid",
     show_password |-> TRUE]

\* App::new: focus on the known table (device powered, station mode), no pending connection.
AppNew ==
    [focused_block |-> "KnownNetworks",
     network_name_requiring_auth |-> None,
     network_pending_auth |-> None,
     agent |-> [psk_required |-> FALSE,
                private_key_passphrase_required |-> FALSE,
                password_required |-> FALSE,
                username_and_password_required |-> FALSE],
     psk |-> [passphrase |-> <<>>, show_password |-> FALSE],
     hidden |-> HiddenSsidDialogDefault]

\* The answers Device::new may get: those of a tick, or a failing first fetch.
NewInputs ==
    TickInputs \cup
    {[fail |-> "device_state", device_state |-> "Disconnected",
      ethernet |-> [ok |-> TRUE, val |-> FALSE], connected_ssid |-> None,
      aps |-> <<>>, saved |-> <<>>, active_ap |-> None]}

\* Device::new: the station is Station::new(...).ok().
Init ==
    /\ call_args = None
    /\ call_ret = None
    /\ \E fx \in NewInputs :
        /\ station = StationNew(fx)
        /\ fetched = Fetched("new", fx, IF IsSome(StationNew(fx)) THEN "Ok" ELSE "Err",
                              "none", "none")
    /\ app = AppNew
    /\ IoIdle

\* App::tick -> Device::refresh (device powered, station mode): refresh the station,
\* or construct it when there is none.
Tick(fx) ==
    /\ handler = None
    /\ IF IsSome(station)
       THEN \E r \in {refresh(Unwrap(station), fx)} :
            /\ station' = Some(r.station)
            /\ fetched' = Fetched("refresh", fx, r.result, r.new_path, r.known_path)
       ELSE /\ station' = StationNew(fx)
            /\ fetched' = Fetched("new", fx, IF IsSome(StationNew(fx)) THEN "Ok" ELSE "Err",
                                  "none", "none")
    /\ UNCHANGED <<call_args, call_ret, app, ioVars, agentVars>>

\* Key j / Down with the known table focused (handler.rs 684-708).
KnownScrollDown ==
    /\ handler = None
    /\ IsSome(station)
    /\ app.focused_block = "KnownNetworks"
    /\ LET st == Unwrap(station) IN
       /\ st.known_networks /= <<>>
       /\ LET i == IF IsSome(st.known_networks_state)
                    THEN LET sel == Unwrap(st.known_networks_state)
                             limit == IF st.show_unavailable_known_networks
                                      THEN Len(st.known_networks)
                                           + Len(st.unavailable_known_networks) - 1
                                      ELSE Len(st.known_networks) - 1
                         IN IF sel < limit THEN sel + 1 ELSE sel
                    ELSE 0
          IN station' = Some([st EXCEPT !.known_networks_state = Some(i)])
    /\ UNCHANGED <<call_args, call_ret, fetched, app, ioVars, agentVars>>

\* Key k / Up with the known table focused (handler.rs 709-719).
KnownScrollUp ==
    /\ handler = None
    /\ IsSome(station)
    /\ app.focused_block = "KnownNetworks"
    /\ LET st == Unwrap(station) IN
       /\ st.known_networks /= <<>>
       /\ LET i == IF IsSome(st.known_networks_state)
                    THEN IF Unwrap(st.known_networks_state) = 0 THEN 0
                         ELSE Unwrap(st.known_networks_state) - 1
                    ELSE 0
          IN station' = Some([st EXCEPT !.known_networks_state = Some(i)])
    /\ UNCHANGED <<call_args, call_ret, fetched, app, ioVars, agentVars>>

\* The show_all key with the known table focused (handler.rs 642-647).
ToggleShowUnavailable ==
    /\ handler = None
    /\ IsSome(station)
    /\ app.focused_block = "KnownNetworks"
    /\ station' = Some([Unwrap(station) EXCEPT !.show_unavailable_known_networks = ~@])
    /\ UNCHANGED <<call_args, call_ret, fetched, app, ioVars, agentVars>>

\* A plausible slip: the cursor moves down without a limit.
NewScrollDownNoLimit ==
    /\ handler = None
    /\ IsSome(station)
    /\ app.focused_block = "NewNetworks"
    /\ LET st == Unwrap(station) IN
       /\ st.new_networks /= <<>>
       /\ LET i == IF IsSome(st.new_networks_state)
                    THEN Unwrap(st.new_networks_state) + 1
                    ELSE 0
          IN station' = Some([st EXCEPT !.new_networks_state = Some(i)])
    /\ UNCHANGED <<call_args, call_ret, fetched, app, ioVars, agentVars>>

\* Key j / Down with the new table focused (handler.rs 740-758).
NewScrollDown ==
    /\ handler = None
    /\ IsSome(station)
    /\ app.focused_block = "NewNetworks"
    /\ LET st == Unwrap(station) IN
       /\ st.new_networks /= <<>>
       /\ LET i == IF IsSome(st.new_networks_state)
                    THEN LET sel == Unwrap(st.new_networks_state)
                             limit == IF st.show_hidden_networks
                                      THEN Len(st.new_networks)
                                           + Len(st.new_hidden_networks) - 1
                                      ELSE Len(st.new_networks) - 1
                         IN IF sel < limit THEN sel + 1 ELSE sel
                    ELSE 0
          IN station' = Some([st EXCEPT !.new_networks_state = Some(i)])
    /\ UNCHANGED <<call_args, call_ret, fetched, app, ioVars, agentVars>>

\* Key k / Up with the new table focused (handler.rs 759-768).
NewScrollUp ==
    /\ handler = None
    /\ IsSome(station)
    /\ app.focused_block = "NewNetworks"
    /\ LET st == Unwrap(station) IN
       /\ st.new_networks /= <<>>
       /\ LET i == IF IsSome(st.new_networks_state)
                    THEN IF Unwrap(st.new_networks_state) = 0 THEN 0
                         ELSE Unwrap(st.new_networks_state) - 1
                    ELSE 0
          IN station' = Some([st EXCEPT !.new_networks_state = Some(i)])
    /\ UNCHANGED <<call_args, call_ret, fetched, app, ioVars, agentVars>>

\* Key Tab in station mode (handler.rs 499-510).
FocusTab ==
    /\ handler = None
    /\ IsSome(station)
    /\ app.focused_block \in {"Device", "KnownNetworks", "NewNetworks"}
    /\ app' = [app EXCEPT !.focused_block =
                    CASE @ = "Device" -> "KnownNetworks"
                      [] @ = "KnownNetworks" -> "NewNetworks"
                      [] @ = "NewNetworks" -> "Device"]
    /\ UNCHANGED <<call_args, call_ret, station, fetched, ioVars, agentVars>>

\* Key BackTab in station mode (handler.rs 511-522).
FocusBackTab ==
    /\ handler = None
    /\ IsSome(station)
    /\ app.focused_block \in {"Device", "KnownNetworks", "NewNetworks"}
    /\ app' = [app EXCEPT !.focused_block =
                    CASE @ = "Device" -> "NewNetworks"
                      [] @ = "NewNetworks" -> "KnownNetworks"
                      [] @ = "KnownNetworks" -> "Device"]
    /\ UNCHANGED <<call_args, call_ret, station, fetched, ioVars, agentVars>>

Next ==
    \/ \E fx \in TickInputs : Tick(fx)
    \/ KnownScrollDown
    \/ KnownScrollUp
    \/ ToggleShowUnavailable
    \/ NewScrollDown
    \/ NewScrollUp
    \/ FocusTab
    \/ FocusBackTab

Spec == Init /\ [][Next]_vars

\* ------------------------------------------------- claims about the refresh

\* The step is a pass of Station::refresh over an existing station.
RefreshStep ==
    /\ IsSome(station)
    /\ fetched'.op = "refresh"
    /\ station' = Some(refresh(Unwrap(station), fetched'.fx).station)

SavedSsids(saved_connections) == {saved_connections[i].ssid : i \in DOMAIN saved_connections}
UnavailableNames(list) == {list[i].name : i \in DOMAIN list}

\* C2: after a pass that reached find_unavailable_networks, the SSIDs of the known
\* (visible) networks and of the unavailable networks are disjoint, and together they
\* are the SSIDs of the saved profiles.
C2_KnownUnavailablePartitionSaved ==
    (IsSome(station) /\ fetched.result = "Ok") =>
        LET st == Unwrap(station) IN
        /\ Names(st.known_networks) \cap UnavailableNames(st.unavailable_known_networks) = {}
        /\ Names(st.known_networks) \cup UnavailableNames(st.unavailable_known_networks)
                = SavedSsids(fetched.fx.saved)

\* A refresh has left one visible known network and one unavailable one.
C2_Witness ==
    /\ IsSome(station)
    /\ fetched.op = "refresh" /\ fetched.result = "Ok"
    /\ Len(Unwrap(station).known_networks) = 1
    /\ Len(Unwrap(station).unavailable_known_networks) = 1

\* The fresh list has the SSID set of the held one: same size, same membership.
SameSsidSet(held, fresh) == Len(held) = Len(fresh) /\ Names(held) = Names(fresh)

\* The held list keeps its rows in order and shows the fresh signal of every row.
RowsKeptSignalsFresh(held, after, fresh) ==
    /\ Len(after) = Len(held)
    /\ \A i \in DOMAIN held :
        /\ after[i].net.name = held[i].net.name
        /\ after[i].net.ap_path = held[i].net.ap_path
        /\ \E j \in DOMAIN fresh : /\ fresh[j].net.name = held[i].net.name
                                   /\ after[i].signal = fresh[j].signal

\* Every row of the known list carries the autoconnect flag of the fresh profile.
AutoconnectFresh(after, fresh) ==
    \A i \in DOMAIN after : \E j \in DOMAIN fresh :
        /\ fresh[j].net.name = after[i].net.name
        /\ Unwrap(after[i].net.known_network).is_autoconnect
                = Unwrap(fresh[j].net.known_network).is_autoconnect

\* C4: a refresh whose fresh list has the SSID set of the held list keeps the rows, their
\* order and the selection, copies the fresh signal (and, in the known list, the fresh
\* autoconnect flag) into every row, and merging the same fresh list again changes nothing.
C4_SameSetMergeKeepsRows ==
    [][RefreshStep =>
        \A cat \in {reconcile(fetched'.fx)} :
        LET st == Unwrap(station)
            after == Unwrap(station')
        IN /\ SameSsidSet(st.new_networks, cat.new_networks) =>
                /\ RowsKeptSignalsFresh(st.new_networks, after.new_networks, cat.new_networks)
                /\ after.new_networks_state = st.new_networks_state
                /\ update_network_list(after.new_networks, after.new_networks_state,
                                       cat.new_networks)
                      = [list |-> after.new_networks, state |-> after.new_networks_state]
           /\ SameSsidSet(st.known_networks, cat.known_networks) =>
                /\ RowsKeptSignalsFresh(st.known_networks, after.known_networks,
                                        cat.known_networks)
                /\ AutoconnectFresh(after.known_networks, cat.known_networks)
                /\ after.known_networks_state = st.known_networks_state
                /\ update_known_network_list(after.known_networks, after.known_networks_state,
                                             cat.known_networks)
                      = [list |-> after.known_networks, state |-> after.known_networks_state]
    ]_vars

\* A refresh merged a fresh known list of two networks into the held one: the held order
\* is not the fresh order, the cursor is on the second row, and the profile of "A" came
\* with autoconnect off.
C4_Witness ==
    /\ IsSome(station)
    /\ fetched.op = "refresh" /\ fetched.known_path = "merged" /\ fetched.new_path = "merged"
    /\ LET st == Unwrap(station)
           cat == reconcile(fetched.fx)
       IN /\ Len(st.known_networks) = 2
          /\ st.known_networks[1].net.name /= cat.known_networks[1].net.name
          /\ st.known_networks_state = Some(1)
          /\ \E i \in DOMAIN st.known_networks :
                ~Unwrap(st.known_networks[i].net.known_network).is_autoconnect

\* A refresh merged a fresh new list of two networks into the held one: the held order
\* is not the fresh order and the cursor is on the second row.
C4_WitnessNew ==
    /\ IsSome(station)
    /\ fetched.op = "refresh" /\ fetched.new_path = "merged"
    /\ LET st == Unwrap(station)
           cat == reconcile(fetched.fx)
       IN /\ Len(st.new_networks) = 2
          /\ st.new_networks[1].net.name /= cat.new_networks[1].net.name
          /\ st.new_networks_state = Some(1)

\* The selection a replaced list gets: the first row, or none when the list is empty.
ResetSelection(list) == IF Len(list) > 0 THEN Some(0) ELSE None

\* C5: a refresh whose fresh list has another SSID set than the held list replaces the
\* held list by the fresh one and resets the selection to the first row, or to none when
\* the fresh list is empty.
C5_SetChangeReplacesAndResets ==
    [][RefreshStep =>
        \A cat \in {reconcile(fetched'.fx)} :
        LET st == Unwrap(station)
            after == Unwrap(station')
        IN /\ ~SameSsidSet(st.new_networks, cat.new_networks) =>
                /\ after.new_networks = cat.new_networks
                /\ after.new_networks_state = ResetSelection(cat.new_networks)
           /\ ~SameSsidSet(st.known_networks, cat.known_networks) =>
                /\ after.known_networks = cat.known_networks
                /\ after.known_networks_state = ResetSelection(cat.known_networks)
    ]_vars

\* A refresh replaced the known list by a fresh one of a single network.
C5_Witness ==
    /\ IsSome(station)
    /\ fetched.op = "refresh" /\ fetched.known_path = "replaced"
    /\ Len(Unwrap(station).known_networks) = 1
    /\ Unwrap(station).known_networks_state = Some(0)

\* Station::resolve_known_selection.
resolve_known_selection(st) ==
    IF ~IsSome(st.known_networks_state) THEN None
    ELSE LET selected == Unwrap(st.known_networks_state)
             ethernet_offset == IF st.is_ethernet_connected THEN 1 ELSE 0
             data_index == selected - ethernet_offset
             unavail_index == data_index - Len(st.known_networks)
         IN IF selected < ethernet_offset THEN Some([kind |-> "Ethernet", index |-> 0])
            ELSE IF data_index < Len(st.known_networks)
                 THEN Some([kind |-> "Network", index |-> data_index])
                 ELSE IF unavail_index < Len(st.unavailable_known_networks)
                      THEN Some([kind |-> "Unavailable", index |-> unavail_index])
                      ELSE None

\* The SSID of the row the known-table cursor is on: none for no row and for the
\* ethernet row.
CursorSsid(st) ==
    LET sel == resolve_known_selection(st) IN
    IF ~IsSome(sel) THEN None
    ELSE CASE Unwrap(sel).kind = "Network"
                -> Some(st.known_networks[Unwrap(sel).index + 1].net.name)
           [] Unwrap(sel).kind = "Unavailable"
                -> Some(st.unavailable_known_networks[Unwrap(sel).index + 1].name)
           [] OTHER -> None

\* C6: across a refresh that leaves the SSID set of the known networks unchanged, the row
\* under the known-table cursor names the same SSID after the refresh as before it.
C6_CursorKeepsSsid ==
    [][(/\ RefreshStep
        /\ Names(Unwrap(station).known_networks) = Names(Unwrap(station').known_networks)
        /\ IsSome(CursorSsid(Unwrap(station))))
            => CursorSsid(Unwrap(station')) = CursorSsid(Unwrap(station))
    ]_vars

\* ------------------------------------------------- Network::connect and Station::disconnect

\* SecurityType::requires_password.
security_requires_password(network_type) == network_type /= "Open"

\* A plausible slip: every network is taken to require a password.
requires_password_always(net) == TRUE

\* Network::requires_password.
requires_password(net) ==
    net.known_network = None /\ security_requires_password(net.network_type)

\* A plausible slip: connect creates a new profile even for a known network.
connect_call_always_adds(net, password) ==
    [op |-> "add_and_activate_connection", target |-> net.ap_path, password |-> password]

\* The service call Network::connect issues (network.rs 50-56, 73-77).
connect_call(net, password) ==
    IF IsSome(net.known_network)
    THEN [op |-> "activate_connection",
          target |-> Unwrap(net.known_network).connection_path, password |-> None]
    ELSE [op |-> "add_and_activate_connection", target |-> net.ap_path, password |-> password]

\* What Network::connect does once its call has answered Ok or Err: the level of the
\* notification it sends, if any, and the Result it returns (network.rs 57-101).
connect_result(net, password, answer) ==
    IF answer = "Ok" THEN [notification |-> Some("Info"), ret |-> "Ok"]
    ELSE IF IsSome(net.known_network) THEN [notification |-> Some("Error"), ret |-> "Ok"]
    ELSE IF security_requires_password(net.network_type) /\ password = None
         THEN [notification |-> None, ret |-> "Err(Password required)"]
         ELSE [notification |-> Some("Error"), ret |-> "Ok"]

\* A plausible slip: the outcome is reported as Info whatever the service answered.
disconnect_result_always_info(answer) == [notification |-> Some("Info"), ret |-> "Ok"]

\* What Station::disconnect does once disconnect_device has answered (station.rs 320-340).
disconnect_result(answer) ==
    IF answer = "Ok" THEN [notification |-> Some("Info"), ret |-> "Ok"]
    ELSE [notification |-> Some("Error"), ret |-> "Ok"]

\* A task running net.connect(sender, password), spawned by toggle number toggle
\* (0: not spawned by toggle_connect).
NewTask(toggle, net, password) ==
    [toggle |-> toggle, net |-> net, password |-> password,
     pc |-> "spawned", call |-> 0, ret |-> None]

\* A call to the service, issued by task number task (0: by the foreground handler).
NewCall(c, toggle, task) ==
    [op |-> c.op, target |-> c.target, password |-> c.password,
     toggle |-> toggle, task |-> task, status |-> "pending"]

\* A notification sent on the event channel.
NotificationEvent(level, toggle, task) ==
    [kind |-> "Notification", level |-> level, name |-> "", toggle |-> toggle, task |-> task]

\* Event::ConfigureNewEapNetwork(name) or Event::Auth(name) sent by the foreground handler.
HandlerEvent(kind, name, toggle) ==
    [kind |-> kind, level |-> "", name |-> name, toggle |-> toggle, task |-> 0]

\* Task i runs Network::connect up to the await of its service call.
ConnectCall(i) ==
    /\ tasks[i].pc = "spawned"
    /\ calls' = Append(calls, NewCall(connect_call(tasks[i].net, tasks[i].password),
                                      tasks[i].toggle, i))
    /\ tasks' = [tasks EXCEPT ![i].pc = "awaiting", ![i].call = Len(calls) + 1]
    /\ UNCHANGED <<call_args, call_ret, station, fetched, app, handler, toggles, events,
                 agentVars, modal_keys>>

\* The service answers a pending call.
ServiceAnswers(c, answer) ==
    /\ calls[c].status = "pending"
    /\ calls' = [calls EXCEPT ![c].status = answer]
    /\ UNCHANGED <<call_args, call_ret, station, fetched, app, handler, toggles, tasks, events,
                 agentVars, modal_keys>>

\* Task i resumes from the await and runs Network::connect to its return.
ConnectReturn(i) ==
    /\ tasks[i].pc = "awaiting"
    /\ calls[tasks[i].call].status /= "pending"
    /\ \E r \in {connect_result(tasks[i].net, tasks[i].password, calls[tasks[i].call].status)} :
        /\ events' = IF IsSome(r.notification)
                     THEN Append(events, NotificationEvent(Unwrap(r.notification),
                                                           tasks[i].toggle, i))
                     ELSE events
        /\ tasks' = [tasks EXCEPT ![i].pc = "returned", ![i].ret = Some(r.ret)]
    /\ UNCHANGED <<call_args, call_ret, station, fetched, app, handler, toggles, calls,
                 agentVars, modal_keys>>

\* ------------------------------------------------- specification: Network::connect

ConnectSecurities == {"Open", "WPA2", "Enterprise"}

\* The networks connect is applied to: an access point of any security class, with or
\* without a saved profile.
ConnectNets ==
    {from_access_point([path |-> ApPathOf(ssid), ssid |-> ssid, strength |-> 1,
                        security |-> sec], known, FALSE) :
        ssid \in Ssids, sec \in ConnectSecurities,
        known \in {None} \cup
                  {Some(from_connection_info([path |-> ProfilePathOf(x), ssid |-> x,
                                              autoconnect |-> TRUE,
                                              security |-> ProfileSecurityOf(x)])) :
                        x \in Ssids}}

Passwords == {None, Some("secret")}

InitNetworkConnect ==
    /\ call_args = None
    /\ call_ret = None
    /\ station = None
    /\ fetched = None
    /\ app = None
    /\ handler = None
    /\ toggles = <<>>
    /\ \E net \in ConnectNets, password \in Passwords :
        /\ (IsSome(net.known_network) => Unwrap(net.known_network).name = net.name)
        /\ tasks = <<NewTask(0, net, password)>>
    /\ calls = <<>>
    /\ events = <<>>
    /\ channels = NoMessages
    /\ waits = <<>>
    /\ modal_keys = <<>>

NextNetworkConnect ==
    \/ \E i \in DOMAIN tasks : ConnectCall(i)
    \/ \E c \in DOMAIN calls, answer \in {"Ok", "Err"} : ServiceAnswers(c, answer)
    \/ \E i \in DOMAIN tasks : ConnectReturn(i)

SpecNetworkConnect == InitNetworkConnect /\ [][NextNetworkConnect]_vars

CallsOfTask(i) == {c \in DOMAIN calls : calls[c].task = i}
NotificationsOfTask(i) ==
    {e \in DOMAIN events : events[e].kind = "Notification" /\ events[e].task = i}

C8_KnownActivatesOnce ==
    \A i \in DOMAIN tasks :
        IsSome(tasks[i].net.known_network) =>
            /\ \A c \in CallsOfTask(i) :
                /\ calls[c].op = "activate_connection"
                /\ calls[c].target = Unwrap(tasks[i].net.known_network).connection_path
            /\ Cardinality(CallsOfTask(i)) = IF tasks[i].pc = "spawned" THEN 0 ELSE 1
            /\ tasks[i].pc /= "returned" => NotificationsOfTask(i) = {}
            /\ tasks[i].pc = "returned" =>
                /\ tasks[i].ret = Some("Ok")
                /\ Cardinality(NotificationsOfTask(i)) = 1
                /\ \A e \in NotificationsOfTask(i) :
                        events[e].level = IF calls[tasks[i].call].status = "Ok"
                                          THEN "Info" ELSE "Error"

\* connect on a known WPA2 network with a secret supplied has returned after its activate
\* call failed.
C8_Witness ==
    \E i \in DOMAIN tasks :
        /\ IsSome(tasks[i].net.known_network)
        /\ tasks[i].net.network_type = "WPA2"
        /\ IsSome(tasks[i].password)
        /\ tasks[i].pc = "returned"
        /\ calls[tasks[i].call].status = "Err"

\* ------------------------------------------------- toggle_connect

\* A plausible slip: with a connection up, the handler always switches, also when the
\* selected network is the connected one.
known_decision_always_switches(st, selected_net, net) ==
    IF IsSome(st.connected_network)
    THEN [kind |-> "disconnect_then_connect", net |-> Some(net)]
    ELSE [kind |-> "connect", net |-> Some(net)]

\* toggle_connect on a row of known_networks (handler.rs 76-94, 103-116): selected_net is
\* the row at the selected index, net the first row of that name.
known_decision(st, selected_net, net) ==
    IF IsSome(st.connected_network)
    THEN IF selected_net.name = Unwrap(st.connected_network).name
         THEN [kind |-> "disconnect", net |-> None]
         ELSE [kind |-> "disconnect_then_connect", net |-> Some(net)]
    ELSE [kind |-> "connect", net |-> Some(net)]

\* A plausible slip: the password test comes before the enterprise test.
new_decision_password_first(net) ==
    IF requires_password(net) THEN [kind |-> "request_passphrase", net |-> Some(net)]
    ELSE IF net.network_type = "Enterprise" THEN [kind |-> "configure_eap", net |-> Some(net)]
    ELSE [kind |-> "connect", net |-> Some(net)]

\* toggle_connect on a row of new_networks (handler.rs 24-47).
new_decision(net) ==
    IF net.network_type = "Enterprise" THEN [kind |-> "configure_eap", net |-> Some(net)]
    ELSE IF requires_password(net) THEN [kind |-> "request_passphrase", net |-> Some(net)]
    ELSE [kind |-> "connect", net |-> Some(net)]

\* The branch toggle_connect takes (handler.rs 18-123), and the network it is about:
\*   "return"                   nothing to do
\*   "configure_eap"            send Event::ConfigureNewEapNetwork
\*   "request_passphrase"       record the pending network and ask for its passphrase
\*   "connect"                  spawn net.connect(None)
\*   "disconnect"               await station.disconnect
\*   "disconnect_then_connect"  await station.disconnect, then spawn net.connect(None)
\*   "notify_hidden"            the hidden-network notification
\*   "panic"                    an index out of bounds, or len() - 1 on an empty list
toggle_connect(a, st) ==
    CASE a.focused_block = "NewNetworks" ->
            IF ~IsSome(st.new_networks_state) THEN [kind |-> "return", net |-> None]
            ELSE LET net_index == Unwrap(st.new_networks_state) IN
                 IF net_index < Len(st.new_networks)
                 THEN new_decision(st.new_networks[net_index + 1].net)
                 ELSE LET hidden_index == net_index - Len(st.new_networks) IN
                      IF hidden_index >= Len(st.new_hidden_networks)
                      THEN [kind |-> "panic", net |-> None]
                      ELSE LET net == st.new_hidden_networks[hidden_index + 1] IN
                           IF net.network_type = "8021x"
                           THEN [kind |-> "configure_eap", net |-> Some([name |-> net.address])]
                           ELSE [kind |-> "notify_hidden", net |-> None]
      [] a.focused_block = "KnownNetworks" ->
            IF ~IsSome(st.known_networks_state) THEN [kind |-> "return", net |-> None]
            ELSE LET selected_net_index == Unwrap(st.known_networks_state) IN
                 IF Len(st.known_networks) = 0 THEN [kind |-> "panic", net |-> None]
                 ELSE IF selected_net_index > Len(st.known_networks) - 1
                      THEN [kind |-> "return", net |-> None]
                      ELSE LET selected_net == st.known_networks[selected_net_index + 1].net
                               index == FindName(st.known_networks, selected_net.name)
                           IN known_decision(st, selected_net, st.known_networks[index].net)
      [] OTHER -> [kind |-> "return", net |-> None]

\* A plausible slip: the connect task of a switch is spawned before the disconnect is awaited.
spawned_at_toggle_eager(d) ==
    IF d.kind \in {"connect", "disconnect_then_connect"} THEN d.net ELSE None

\* The network whose connect task toggle_connect spawns before it reaches an await.
spawned_at_toggle(d) == IF d.kind = "connect" THEN d.net ELSE None

\* What a toggle_connect was invoked on: the focused table, the network at the selected
\* index of that table (none when the index is past the list) and the name of the
\* connected network.
ToggleFacts(a, st) ==
    [focused_block |-> a.focused_block,
     row |-> IF a.focused_block = "KnownNetworks"
             THEN IF IsSome(st.known_networks_state)
                        /\ Unwrap(st.known_networks_state) < Len(st.known_networks)
                  THEN Some(st.known_networks[Unwrap(st.known_networks_state) + 1].net)
                  ELSE None
             ELSE IF IsSome(st.new_networks_state)
                        /\ Unwrap(st.new_networks_state) < Len(st.new_networks)
                  THEN Some(st.new_networks[Unwrap(st.new_networks_state) + 1].net)
                  ELSE None,
     connected |-> IF IsSome(st.connected_network)
                   THEN Some(Unwrap(st.connected_network).name) ELSE None]

\* Largest number of toggle_connect invocations in a behaviour.
MaxToggles == 2

\* Enter / Space with the known or the new table focused: toggle_connect up to its first
\* await, or to its return when it awaits nothing.
ToggleConnect ==
    /\ handler = None
    /\ IsSome(station)
    /\ app.focused_block \in {"KnownNetworks", "NewNetworks"}
    /\ Len(toggles) < MaxToggles
    /\ \E d \in {toggle_connect(app, Unwrap(station))}, t \in {Len(toggles) + 1} :
        /\ toggles' = Append(toggles, ToggleFacts(app, Unwrap(station)))
        /\ app' = IF d.kind = "request_passphrase"
                  THEN [app EXCEPT !.network_name_requiring_auth = Some(Unwrap(d.net).name),
                                   !.network_pending_auth = d.net,
                                   !.agent.psk_required = TRUE,
                                   !.focused_block = "PskAuthKey"]
                  ELSE app
        /\ events' = CASE d.kind = "configure_eap"
                            -> Append(events, HandlerEvent("ConfigureNewEapNetwork",
                                                           Unwrap(d.net).name, t))
                       [] d.kind = "request_passphrase"
                            -> Append(events, HandlerEvent("Auth", Unwrap(d.net).name, t))
                       [] d.kind = "notify_hidden"
                            -> Append(events, NotificationEvent("Info", t, 0))
                       [] OTHER -> events
        /\ tasks' = IF IsSome(spawned_at_toggle(d))
                    THEN Append(tasks, NewTask(t, Unwrap(spawned_at_toggle(d)), None))
                    ELSE tasks
        /\ calls' = IF d.kind \in {"disconnect", "disconnect_then_connect"}
                    THEN Append(calls, NewCall([op |-> "disconnect_device", target |-> 0,
                                                password |-> None], t, 0))
                    ELSE calls
        /\ handler' = CASE d.kind \in {"disconnect", "disconnect_then_connect"}
                            -> Some([op |-> "toggle_connect", toggle |-> t,
                                     call |-> Len(calls) + 1, then |-> d.net])
                        [] d.kind = "panic"
                            -> Some([op |-> "panic", toggle |-> t, call |-> 0, then |-> None])
                        [] OTHER -> None
    /\ UNCHANGED <<call_args, call_ret, station, fetched,
                 agentVars, modal_keys>>

\* disconnect_device has answered: Station::disconnect sends its notification and returns,
\* and toggle_connect runs to its return, spawning the connect task of a switch.
DisconnectReturn ==
    /\ IsSome(handler)
    /\ Unwrap(handler).op = "toggle_connect"
    /\ calls[Unwrap(handler).call].status /= "pending"
    /\ \E h \in {Unwrap(handler)} :
       \E r \in {disconnect_result(calls[h.call].status)} :
        /\ events' = Append(events, NotificationEvent(Unwrap(r.notification), h.toggle, 0))
        /\ tasks' = IF IsSome(h.then)
                    THEN Append(tasks, NewTask(h.toggle, Unwrap(h.then), None))
                    ELSE tasks
        /\ handler' = None
    /\ UNCHANGED <<call_args, call_ret, station, fetched, app, toggles, calls,
                 agentVars, modal_keys>>

\* ------------------------------------------------- specification: connecting from the tables

\* The scans Station::new may read here: "A" alone, or "A" and "B".
ConnectScans == {s \in TickScans : Len(s) > 0 /\ s[1].ssid = "A" /\ s[1].strength = 1}

\* The answers Station::new gets: the device is activated exactly when it reports an SSID.
ConnectInputs ==
    {fx \in [fail : {"none"},
             device_state : {"Activated", "Disconnected"},
             ethernet : {[ok |-> TRUE, val |-> FALSE]},
             connected_ssid : ConnectedSsids,
             aps : ConnectScans,
             saved : TickSaved,
             active_ap : {None}] :
        /\ (fx.device_state = "Activated") = IsSome(fx.connected_ssid)
        /\ \A i \in DOMAIN fx.saved : fx.saved[i].autoconnect}

InitConnect ==
    /\ call_args = None
    /\ call_ret = None
    /\ \E fx \in ConnectInputs :
        /\ station = StationNew(fx)
        /\ fetched = Fetched("new", fx, "Ok", "none", "none")
    /\ app = AppNew
    /\ IoIdle

NextConnect ==
    \/ ToggleConnect
    \/ DisconnectReturn
    \/ \E c \in DOMAIN calls, answer \in {"Ok", "Err"} : ServiceAnswers(c, answer)
    \/ \E i \in DOMAIN tasks : ConnectCall(i)
    \/ \E i \in DOMAIN tasks : ConnectReturn(i)
    \/ KnownScrollDown
    \/ KnownScrollUp
    \/ ToggleShowUnavailable
    \/ NewScrollDown
    \/ NewScrollUp
    \/ FocusTab
    \/ FocusBackTab

SpecConnect == InitConnect /\ [][NextConnect]_vars

\* The calls of one kind issued on behalf of toggle t, by the handler or by its task.
CallsOfToggle(t, op) == {c \in DOMAIN calls : calls[c].toggle = t /\ calls[c].op = op}

\* Toggle t was invoked with the known table focused, a connection up and the cursor
\* on a row of known_networks.
OnKnownRowWhileConnected(t) ==
    /\ toggles[t].focused_block = "KnownNetworks"
    /\ IsSome(toggles[t].row)
    /\ IsSome(toggles[t].connected)

MaxWaits == 2

\* Most messages queued in the three channels of the agent together.
MaxQueued == 3

Queued(ch) == Len(ch.passphrase) + Len(ch.username_password) + ch.cancel

AgentPassphrases == {"p1", "p2"}
AgentCredentials == {<<"user", "p1">>}

WaitKinds == {"passphrase", "username_password"}

\* The select with a timer branch added: the wait can give up with nothing received.
select_recv_or_timeout(ch, own) ==
    {[ret |-> Some(Head(ch[own])), channels |-> [ch EXCEPT ![own] = Tail(@)]] :
        x \in IF ch[own] /= <<>> THEN {own} ELSE {}}
    \cup {[ret |-> None, channels |-> [ch EXCEPT !.cancel = @ - 1]] :
        x \in IF ch.cancel > 0 THEN {own} ELSE {}}
    \cup {[ret |-> None, channels |-> ch]}

\* tokio::select! over the receiver of the wait's own channel and the receiver of the
\* cancel channel: the ways the wait can complete with the messages queued in ch, each
\* with the value returned and the channels afterwards. A receive takes the oldest
\* message out of its queue; with both queues non-empty either branch may win; with both
\* empty there is no way to complete. The agent owns the senders, so no receive fails.
select_recv(ch, own) ==
    {[ret |-> Some(Head(ch[own])), channels |-> [ch EXCEPT ![own] = Tail(@)]] :
        x \in IF ch[own] /= <<>> THEN {own} ELSE {}}
    \cup {[ret |-> None, channels |-> [ch EXCEPT !.cancel = @ - 1]] :
        x \in IF ch.cancel > 0 THEN {own} ELSE {}}

wait_for_passphrase(ch) == select_recv(ch, "passphrase")

wait_for_username_password(ch) == select_recv(ch, "username_password")

\* A task suspended in a wait_for_ function. cancelled and after_reset are history:
\* cancelled, whether cancel() ran while the task was suspended; after_reset, whether
\* reset() had run since the last cancel() when the wait began.
NewWait(kind, ch) ==
    [kind |-> kind, pc |-> "suspended", ret |-> None, cancelled |-> FALSE,
     after_reset |-> ch.reset_since_cancel]

\* A task calls wait_for_passphrase or wait_for_username_password and suspends.
WaitBegin(kind) ==
    /\ Len(waits) < MaxWaits
    /\ waits' = Append(waits, NewWait(kind, channels))
    /\ UNCHANGED <<fnVars, stationVars, app, ioVars, channels>>

\* The select of wait i completes and the function returns.
WaitReturn(i) ==
    /\ waits[i].pc = "suspended"
    /\ \E o \in IF waits[i].kind = "passphrase" THEN wait_for_passphrase(channels)
                ELSE wait_for_username_password(channels) :
        /\ waits' = [waits EXCEPT ![i].pc = "returned", ![i].ret = o.ret]
        /\ channels' = o.channels
    /\ UNCHANGED <<fnVars, stationVars, app, ioVars>>

\* A passphrase is sent on tx_passphrase.
SendPassphrase(v) ==
    /\ Queued(channels) < MaxQueued
    /\ channels' = [channels EXCEPT !.passphrase = Append(@, v)]
    /\ UNCHANGED <<fnVars, stationVars, app, ioVars, waits>>

\* A user name and a password are sent on tx_username_password.
SendUsernamePassword(v) ==
    /\ Queued(channels) < MaxQueued
    /\ channels' = [channels EXCEPT !.username_password = Append(@, v)]
    /\ UNCHANGED <<fnVars, stationVars, app, ioVars, waits>>

\* AuthAgent::cancel: one message on the cancel channel. The channel is unbounded, so
\* the send completes at once; the result of the send is dropped.
Cancel ==
    /\ Queued(channels) < MaxQueued
    /\ channels' = [channels EXCEPT !.cancel = @ + 1, !.reset_since_cancel = FALSE]
    /\ waits' = [i \in DOMAIN waits |->
                    IF waits[i].pc = "suspended" THEN [waits[i] EXCEPT !.cancelled = TRUE]
                    ELSE waits[i]]
    /\ UNCHANGED <<fnVars, stationVars, app, ioVars>>

NoFlags ==
    [psk_required |-> FALSE, private_key_passphrase_required |-> FALSE,
     password_required |-> FALSE, username_and_password_required |-> FALSE]

\* AuthAgent::reset: the four flags are cleared; the channels are not touched.
Reset ==
    /\ app' = [app EXCEPT !.agent = NoFlags]
    /\ channels' = [channels EXCEPT !.reset_since_cancel = TRUE]
    /\ UNCHANGED <<fnVars, stationVars, ioVars, waits>>

InitAgent ==
    /\ call_args = None
    /\ call_ret = None
    /\ station = None
    /\ fetched = None
    /\ app = AppNew
    /\ handler = None
    /\ toggles = <<>>
    /\ tasks = <<>>
    /\ calls = <<>>
    /\ events = <<>>
    /\ channels = NoMessages
    /\ waits = <<>>
    /\ modal_keys = <<>>

NextAgent ==
    \/ \E kind \in WaitKinds : WaitBegin(kind)
    \/ \E i \in DOMAIN waits : WaitReturn(i)
    \/ \E v \in AgentPassphrases : SendPassphrase(v)
    \/ \E v \in AgentCredentials : SendUsernamePassword(v)
    \/ Cancel
    \/ Reset

SpecAgent == InitAgent /\ [][NextAgent]_vars

\* Wait i goes from suspended to returned in this step.
Returns(i) == i \in DOMAIN waits /\ waits[i].pc = "suspended" /\ waits'[i].pc = "returned"

\* C11: a wait_for_passphrase or wait_for_username_password returns only by receiving:
\* either the oldest value queued on its own channel, which it returns as Some(value) and
\* which leaves the queue, or one cancellation from the shared cancel channel, returning
\* None. With nothing sent on either channel it stays suspended; nothing else (such as the
\* passing of time) ends it.
C11_WaitReturnsOnlyByReceiving ==
    [][\A i \in DOMAIN waits :
        Returns(i) =>
            \/ /\ channels[waits[i].kind] /= <<>>
               /\ waits'[i].ret = Some(Head(channels[waits[i].kind]))
               /\ channels' = [channels EXCEPT ![waits[i].kind] = Tail(@)]
            \/ /\ channels.cancel > 0
               /\ waits'[i].ret = None
               /\ channels' = [channels EXCEPT !.cancel = @ - 1]]_vars

\* Both ways of returning have happened: one wait returned a value, another None.
C11_Witness ==
    \E i, j \in DOMAIN waits :
        /\ waits[i].pc = "returned" /\ IsSome(waits[i].ret)
        /\ waits[j].pc = "returned" /\ waits[j].ret = None

\* C12: one cancel() reaches every task suspended in a wait_for_ function at that moment:
\* a task that was suspended when cancel() ran has returned, or still has a cancellation
\* to receive and so can return None.
C12_CancelWakesEveryWaiter ==
    \A i \in DOMAIN waits :
        waits[i].cancelled => waits[i].pc = "returned" \/ channels.cancel > 0

\* C13: no stale cancellation reaches a later wait: a wait that began after the reset()
\* following the last cancel() returns None only if cancel() ran while it was suspended.
C13_NoStaleCancellation ==
    \A i \in DOMAIN waits :
        (waits[i].after_reset /\ waits[i].pc = "returned" /\ waits[i].ret = None)
            => waits[i].cancelled

\* ------------------------------------------------- the passphrase modal (handler.rs 332-367)

\* Longest passphrase typed into the modal.
MaxTyped == 1

TypedChars == {"a", "b"}

\* Psk::submit(&agent): the typed passphrase is sent on tx_passphrase, the psk_required
\* flag is cleared and the input field is reset.
psk_submit(a, ch) ==
    [app |-> [a EXCEPT !.agent.psk_required = FALSE, !.psk.passphrase = <<>>],
     channels |-> [ch EXCEPT !.passphrase = Append(@, a.psk.passphrase)]]

\* Psk::cancel(&agent): AuthAgent::cancel, the psk_required flag is cleared and the
\* input field is reset.
psk_cancel(a, ch) ==
    [app |-> [a EXCEPT !.agent.psk_required = FALSE, !.psk.passphrase = <<>>],
     channels |-> [ch EXCEPT !.cancel = @ + 1, !.reset_since_cancel = FALSE]]

\* Enter that spawns the connect without the passphrase.
psk_auth_key_enter_without_passphrase(a, ch) ==
    [app |-> [psk_submit(a, ch).app EXCEPT !.network_pending_auth = None,
                                           !.network_name_requiring_auth = None,
                                           !.focused_block = "NewNetworks"],
     channels |-> psk_submit(a, ch).channels,
     spawn |-> IF IsSome(a.network_pending_auth)
               THEN Some([net |-> Unwrap(a.network_pending_auth), password |-> None])
               ELSE None]

\* Key Enter in the passphrase modal (handler.rs 333-348): the passphrase is read, then
\* submitted; the pending network is taken and its connect spawned with the passphrase.
psk_auth_key_enter(a, ch) ==
    [app |-> [psk_submit(a, ch).app EXCEPT !.network_pending_auth = None,
                                           !.network_name_requiring_auth = None,
                                           !.focused_block = "NewNetworks"],
     channels |-> psk_submit(a, ch).channels,
     spawn |-> IF IsSome(a.network_pending_auth)
               THEN Some([net |-> Unwrap(a.network_pending_auth),
                          password |-> Some(a.psk.passphrase)])
               ELSE None]

\* Esc that leaves the pending connection in place.
psk_auth_key_esc_keeps_pending(a, ch) ==
    [app |-> [psk_cancel(a, ch).app EXCEPT !.network_name_requiring_auth = None,
                                           !.focused_block = "NewNetworks"],
     channels |-> psk_cancel(a, ch).channels,
     spawn |-> None]

\* Key Esc in the passphrase modal (handler.rs 350-355).
psk_auth_key_esc(a, ch) ==
    [app |-> [psk_cancel(a, ch).app EXCEPT !.network_pending_auth = None,
                                           !.network_name_requiring_auth = None,
                                           !.focused_block = "NewNetworks"],
     channels |-> psk_cancel(a, ch).channels,
     spawn |-> None]

\* What a key of the modal was pressed on: the pending connection, the passphrase typed
\* and the number of tasks spawned so far; key is "Enter" or "Esc".
ModalFacts(key, a, spawned) ==
    [key |-> key, pending |-> a.network_pending_auth, typed |-> a.psk.passphrase,
     spawned |-> spawned]

\* Enter or Esc with the passphrase modal focused.
PskAuthKeyClose(key) ==
    /\ handler = None
    /\ IsSome(station)
    /\ app.focused_block = "PskAuthKey"
    /\ \E r \in {IF key = "Enter" THEN psk_auth_key_enter(app, channels)
                 ELSE psk_auth_key_esc(app, channels)} :
        /\ app' = r.app
        /\ channels' = r.channels
        /\ modal_keys' = Append(modal_keys, ModalFacts(key, app, Len(tasks)))
        /\ tasks' = IF IsSome(r.spawn)
                    THEN Append(tasks, NewTask(0, Unwrap(r.spawn).net, Unwrap(r.spawn).password))
                    ELSE tasks
    /\ UNCHANGED <<fnVars, stationVars, handler, toggles, calls, events, waits>>

\* Key Tab in the passphrase modal (handler.rs 357-359).
PskAuthKeyTab ==
    /\ handler = None
    /\ IsSome(station)
    /\ app.focused_block = "PskAuthKey"
    /\ app' = [app EXCEPT !.psk.show_password = ~@]
    /\ UNCHANGED <<fnVars, stationVars, ioVars, agentVars>>

\* Any other key in the passphrase modal (handler.rs 361-366): a character is typed.
PskAuthKeyType(c) ==
    /\ handler = None
    /\ IsSome(station)
    /\ app.focused_block = "PskAuthKey"
    /\ Len(app.psk.passphrase) < MaxTyped
    /\ app' = [app EXCEPT !.psk.passphrase = Append(@, c)]
    /\ UNCHANGED <<fnVars, stationVars, ioVars, agentVars>>

\* The answers of the service here: nothing is saved, the device is not connected, "A"
\* (WPA2) is in range, alone or with "B" (open).
AuthInputs ==
    {fx \in TickInputs : /\ fx.aps \in ConnectScans
                         /\ fx.saved = <<>>
                         /\ fx.ethernet = [ok |-> TRUE, val |-> FALSE]}

InitAuth ==
    /\ call_args = None
    /\ call_ret = None
    /\ \E fx \in AuthInputs :
        /\ station = StationNew(fx)
        /\ fetched = Fetched("new", fx, "Ok", "none", "none")
    /\ app = AppNew
    /\ IoIdle

\* The steps of the spawned connect tasks are left out: they touch neither the App nor
\* the Station.
NextAuth ==
    \/ \E fx \in AuthInputs : Tick(fx)
    \/ ToggleConnect
    \/ \E key \in {"Enter", "Esc"} : PskAuthKeyClose(key)
    \/ PskAuthKeyTab
    \/ \E c \in TypedChars : PskAuthKeyType(c)
    \/ NewScrollDown
    \/ NewScrollUp
    \/ FocusTab
    \/ FocusBackTab

SpecAuth == InitAuth /\ [][NextAuth]_vars

\* request_passphrase is invoked in this step: its Event::Auth is sent.
RequestsPassphrase ==
    /\ Len(events') = Len(events) + 1
    /\ events'[Len(events')].kind = "Auth"

AuthEvents == {e \in DOMAIN events : events[e].kind = "Auth"}

\* C14: there is one credential prompt at a time. Whenever toggle_connect requests a
\* passphrase, no connection was pending when the key arrived; and a connection is
\* pending only while the passphrase modal has the focus, for the network the modal names.
C14_OnePendingConnection ==
    [][/\ RequestsPassphrase => app.network_pending_auth = None
       /\ IsSome(app'.network_pending_auth) =>
            /\ app'.focused_block = "PskAuthKey"
            /\ app'.network_name_requiring_auth
                    = Some(Unwrap(app'.network_pending_auth).name)]_vars

\* A second passphrase was requested after the first prompt was closed; it is pending.
C14_Witness ==
    /\ Cardinality(AuthEvents) = 2
    /\ IsSome(app.network_pending_auth)
    /\ modal_keys /= <<>>

\* Enter or Esc is handled in the passphrase modal in this step.
ModalKey(key) ==
    /\ app.focused_block = "PskAuthKey"
    /\ Len(modal_keys') = Len(modal_keys) + 1
    /\ modal_keys'[Len(modal_keys')].key = key

\* C15: Enter in the passphrase modal spawns exactly one task, the connect of the pending
\* network with the passphrase typed, and Esc spawns none; after either key no connection
\* is pending, no network name requires authentication and the new-networks table has
\* the focus.
C15_ModalEndsOnSubmitOrCancel ==
    [][/\ ModalKey("Enter") =>
            /\ Len(tasks') = Len(tasks) + 1
            /\ SubSeq(tasks', 1, Len(tasks)) = tasks
            /\ tasks'[Len(tasks')].net = Unwrap(app.network_pending_auth)
            /\ tasks'[Len(tasks')].password = Some(app.psk.passphrase)
            /\ tasks'[Len(tasks')].pc = "spawned"
       /\ ModalKey("Esc") => tasks' = tasks
       /\ (ModalKey("Enter") \/ ModalKey("Esc")) =>
            /\ app'.network_pending_auth = None
            /\ app'.network_name_requiring_auth = None
            /\ app'.focused_block = "NewNetworks"]_vars

\* One prompt was cancelled with Esc, another submitted with a passphrase typed, and the
\* connect spawned by the Enter carries that passphrase.
C15_Witness ==
    \E t, u \in DOMAIN modal_keys :
        /\ modal_keys[t].key = "Esc"
        /\ modal_keys[u].key = "Enter"
        /\ modal_keys[u].typed /= <<>>
        /\ modal_keys[t].spawned = modal_keys[u].spawned
        /\ Len(tasks) = modal_keys[u].spawned + 1
        /\ tasks[Len(tasks)].password = Some(modal_keys[u].typed)
        /\ tasks[Len(tasks)].net = Unwrap(modal_keys[u].pending)

\* ------------------------------------------------- the foreground: App::tick and the key handler

\* Most ticks in a behaviour.
MaxTicks == 2

\* A foreground call that starts whatever the foreground is doing.
foreground_always_free(h) == TRUE

\* App::tick and handle_key_events take `&mut App` (`&mut self`): while the future of one
\* of them is alive it holds the only borrow of the App and its Station, so the next
\* foreground call starts only when no foreground call is suspended.
foreground_free(h) == h = None

\* Device::refresh (device powered, station mode) with the answers fx: Station::refresh
\* and its Result when there is a station; otherwise Station::new(...).ok() and Ok.
device_refresh(st, fx) ==
    IF IsSome(st)
    THEN [refresh(Unwrap(st), fx) EXCEPT !.station = Some(@)] @@ [op |-> "refresh"]
    ELSE [station |-> StationNew(fx), result |-> "Ok", new_path |-> "none",
          known_path |-> "none", op |-> "new"]

\* The answers of the service to the fetches of a tick here: "A" in range and saved, the
\* device connected to "A" or disconnected, and any one fetch failing.
LoopInputs ==
    {fx \in [fail : FailPoints,
             device_state : {"Activated", "Disconnected"},
             ethernet : {[ok |-> TRUE, val |-> FALSE]},
             connected_ssid : {None, Some("A")},
             aps : {s \in ConnectScans : Len(s) = 1},
             saved : {s \in TickSaved : Len(s) = 1 /\ s[1].ssid = "A" /\ s[1].autoconnect},
             active_ap : {None}] :
        (fx.device_state = "Activated") = IsSome(fx.connected_ssid)}

\* The ticks begun so far: each is recorded in calls as one "refresh" entry, pending while
\* the tick is in flight, then carrying the Result App::tick returned.
Ticks == {c \in DOMAIN calls : calls[c].op = "refresh"}

\* The foreground loop calls App::tick, which runs to the first await of Device::refresh.
TickBegin ==
    /\ foreground_free(handler)
    /\ Cardinality(Ticks) < MaxTicks
    /\ calls' = Append(calls, NewCall([op |-> "refresh", target |-> 0, password |-> None],
                                      0, 0))
    /\ handler' = Some([op |-> "tick", toggle |-> 0, call |-> Len(calls) + 1, then |-> None])
    /\ UNCHANGED <<fnVars, stationVars, app, toggles, tasks, events, agentVars, modal_keys>>

\* The fetches of the tick are answered with fx: Device::refresh runs to its return and
\* App::tick returns its Result (the `?` at app.rs 131), kept in call_ret.
TickEnd(fx) ==
    /\ IsSome(handler)
    /\ Unwrap(handler).op = "tick"
    /\ \E r \in {device_refresh(station, fx)}, c \in {Unwrap(handler).call} :
        /\ station' = r.station
        /\ fetched' = Fetched(r.op, fx, r.result, r.new_path, r.known_path)
        /\ call_ret' = Some(r.result)
        /\ calls' = [calls EXCEPT ![c].status = r.result]
    /\ handler' = None
    /\ UNCHANGED <<call_args, app, toggles, tasks, events, agentVars, modal_keys>>

InitLoop ==
    /\ call_args = None
    /\ call_ret = None
    /\ \E fx \in {x \in LoopInputs : x.fail \in {"none", "device_state"}} :
        /\ station = StationNew(fx)
        /\ fetched = Fetched("new", fx, IF IsSome(StationNew(fx)) THEN "Ok" ELSE "Err",
                             "none", "none")
    /\ app = AppNew
    /\ IoIdle

\* The steps of the spawned connect tasks are left out: they touch neither the App nor
\* the Station.
NextLoop ==
    \/ TickBegin
    \/ \E fx \in LoopInputs : TickEnd(fx)
    \/ ToggleConnect
    \/ DisconnectReturn
    \/ \E c \in DOMAIN calls \ Ticks, answer \in {"Ok", "Err"} : ServiceAnswers(c, answer)

SpecLoop == InitLoop /\ [][NextLoop]_vars

\* C16: refreshes are serialized: at most one tick, and so at most one refresh of the
\* station, is in flight at a time, whatever key events and task steps come in between.
C16_RefreshesSerialized ==
    Cardinality({c \in Ticks : calls[c].status = "pending"}) <= 1

\* A tick has returned, then a key was handled whose handler awaited the service, and
\* the next tick is in flight.
C16_Witness ==
    \E c, d, e \in DOMAIN calls :
        /\ c < d /\ d < e
        /\ calls[c].op = "refresh" /\ calls[c].status /= "pending"
        /\ calls[d].op = "disconnect_device" /\ calls[d].task = 0
        /\ calls[e].op = "refresh" /\ calls[e].status = "pending"

\* C17: the key handler never awaits the service itself: every call made to the service
\* on behalf of a key is issued by a spawned task, none by the foreground handler.
C17_ForegroundNeverAwaits ==
    \A c \in DOMAIN calls : calls[c].toggle /= 0 => calls[c].task /= 0

\* C18: no failure of a fetch reaches the foreground loop: whichever of the device-state,
\* connected-SSID, visible-network, saved-profile or diagnostic fetches fails during a
\* tick, App::tick does not return an error.
C18_TickNeverReturnsErr ==
    call_ret /= Some("Err")

\* ------------------------------------------------- specification: refresh ticks and the active SSID

\* The answers of the service to a tick here: every fetch succeeds, each access point in
\* range has strength 1, every saved profile has autoconnect set, and the device is
\* activated exactly when it reports an active SSID, which is then in range.
ActiveInputs ==
    {fx \in [fail : {"none"},
             device_state : {"Activated", "Disconnected"},
             ethernet : {[ok |-> TRUE, val |-> FALSE]},
             connected_ssid : ConnectedSsids,
             aps : {s \in TickScans : \A i \in DOMAIN s : s[i].strength = 1},
             saved : {s \in TickSaved : \A i \in DOMAIN s : s[i].autoconnect},
             active_ap : {None}] :
        /\ (fx.device_state = "Activated") = IsSome(fx.connected_ssid)
        /\ IsSome(fx.connected_ssid) =>
                \E i \in DOMAIN fx.aps : fx.aps[i].ssid = Unwrap(fx.connected_ssid)}

InitActive ==
    /\ call_args = None
    /\ call_ret = None
    /\ \E fx \in ActiveInputs :
        /\ station = StationNew(fx)
        /\ fetched = Fetched("new", fx, "Ok", "none", "none")
    /\ app = AppNew
    /\ IoIdle

NextActive == \E fx \in ActiveInputs : Tick(fx)

SpecActive == InitActive /\ [][NextActive]_vars

\* The rows of the known and the new list of the station.
StationRows ==
    IF IsSome(station)
    THEN {<<"known", i>> : i \in DOMAIN Unwrap(station).known_networks}
         \cup {<<"new", i>> : i \in DOMAIN Unwrap(station).new_networks}
    ELSE {}

RowNet(r) ==
    IF r[1] = "known" THEN Unwrap(station).known_networks[r[2]].net
    ELSE Unwrap(station).new_networks[r[2]].net

\* C19: after every refresh, a Network of the known or of the new list is marked connected
\* exactly when its SSID is the active SSID the service reported in that refresh.
C19_ConnectedIffActiveSsid ==
    (IsSome(fetched) /\ fetched.op = "refresh" /\ fetched.result = "Ok") =>
        \A r \in StationRows :
            RowNet(r).is_connected = (Some(RowNet(r).name) = fetched.fx.connected_ssid)

\* C20: at most one Network of the known and the new list together is marked connected.
C20_AtMostOneConnected ==
    Cardinality({r \in StationRows : RowNet(r).is_connected}) <= 1

\* ------------------------------------------------- specification: refresh ticks and shared SSIDs

\* The answers of the service to a tick here: every fetch succeeds, the device is
\* disconnected, each access point in range has strength 1, and the saved profiles are
\* any list get_wifi_connections can return, several profiles of one SSID included.
SharedInputs ==
    [fail : {"none"},
     device_state : {"Disconnected"},
     ethernet : {[ok |-> TRUE, val |-> FALSE]},
     connected_ssid : {None},
     aps : {s \in TickScans : \A i \in DOMAIN s : s[i].strength = 1},
     saved : {s \in SavedLists(MaxSaved, Ssids) : \A i \in DOMAIN s : s[i].autoconnect},
     active_ap : {None}]

InitShared ==
    /\ call_args = None
    /\ call_ret = None
    /\ \E fx \in SharedInputs :
        /\ station = StationNew(fx)
        /\ fetched = Fetched("new", fx, "Ok", "none", "none")
    /\ app = AppNew
    /\ IoIdle

NextShared == \E fx \in SharedInputs : Tick(fx)

SpecShared == InitShared /\ [][NextShared]_vars

\* The number of rows of the known list and of the unavailable list that carry ssid.
Occurrences(st, ssid) ==
    Cardinality({i \in DOMAIN st.known_networks : st.known_networks[i].net.name = ssid})
    + Cardinality({i \in DOMAIN st.unavailable_known_networks :
                        st.unavailable_known_networks[i].name = ssid})

\* C21: after a refresh that reached find_unavailable_networks, each saved SSID occurs
\* exactly once in the known list and the unavailable list taken together, also when
\* several saved profiles share one SSID.
C21_SavedSsidOccursOnce ==
    (IsSome(station) /\ fetched.op = "refresh" /\ fetched.result = "Ok") =>
        \A ssid \in SavedSsids(fetched.fx.saved) : Occurrences(Unwrap(station), ssid) = 1

\* ------------------------------------------------- specification: toggling new networks

\* The scans Station::new may read here: at most two access points, one per SSID, each of
\* any security class.
OnboardScans ==
    {s \in SeqsUpTo([ok : {TRUE}, ssid : Ssids, strength : {1}, security : ConnectSecurities,
                     path : {ApPathOf(x) : x \in Ssids}], MaxAps) :
        /\ \A i \in DOMAIN s : s[i].path = ApPathOf(s[i].ssid)
        /\ \A i, j \in DOMAIN s : s[i].ssid = s[j].ssid => i = j}

\* The answers Station::new gets: nothing is saved and the device is disconnected.
OnboardInputs ==
    [fail : {"none"},
     device_state : {"Disconnected"},
     ethernet : {[ok |-> TRUE, val |-> FALSE]},
     connected_ssid : {None},
     aps : OnboardScans,
     saved : {<<>>},
     active_ap : {None}]

InitOnboard ==
    /\ call_args = None
    /\ call_ret = None
    /\ \E fx \in OnboardInputs :
        /\ station = StationNew(fx)
        /\ fetched = Fetched("new", fx, "Ok", "none", "none")
    /\ app = AppNew
    /\ IoIdle

NextOnboard ==
    \/ ToggleConnect
    \/ \E key \in {"Enter", "Esc"} : PskAuthKeyClose(key)
    \/ \E c \in DOMAIN calls, answer \in {"Ok", "Err"} : ServiceAnswers(c, answer)
    \/ \E i \in DOMAIN tasks : ConnectCall(i)
    \/ \E i \in DOMAIN tasks : ConnectReturn(i)
    \/ NewScrollDown
    \/ NewScrollUp
    \/ FocusTab
    \/ FocusBackTab

SpecOnboard == InitOnboard /\ [][NextOnboard]_vars

\* Toggle t was invoked with the new table focused and the cursor on a network of
\* security class sec.
OnNewRow(t, sec) ==
    /\ toggles[t].focused_block = "NewNetworks"
    /\ IsSome(toggles[t].row)
    /\ Unwrap(toggles[t].row).network_type = sec

\* toggle_connect is invoked in this step, on a row of the new table of class sec.
TogglesNewRow(sec) ==
    /\ Len(toggles') = Len(toggles) + 1
    /\ toggles'[Len(toggles')].focused_block = "NewNetworks"
    /\ IsSome(toggles'[Len(toggles')].row)
    /\ Unwrap(toggles'[Len(toggles')].row).network_type = sec

\* C22: toggle_connect on a new Enterprise network only sends the enterprise-configuration
\* event with the network's name: it issues no call, spawns no task, leaves the pending
\* connection, the prompt flags and the focus as they were, and awaits nothing.
C22_EnterpriseOnlyEmitsEvent ==
    [][TogglesNewRow("Enterprise") =>
        /\ events' = Append(events, HandlerEvent("ConfigureNewEapNetwork",
                                                 Unwrap(toggles'[Len(toggles')].row).name,
                                                 Len(toggles')))
        /\ calls' = calls
        /\ tasks' = tasks
        /\ app' = app
        /\ handler' = None]_vars

\* A toggle on a new Enterprise network has been handled and its event is the last sent.
C22_Witness ==
    \E t \in DOMAIN toggles :
        /\ OnNewRow(t, "Enterprise")
        /\ events /= <<>>
        /\ events[Len(events)].kind = "ConfigureNewEapNetwork"
        /\ events[Len(events)].toggle = t

\* The calls issued in this step.
NewCalls == {c \in DOMAIN calls' : c \notin DOMAIN calls}

\* C23: toggle_connect on a new Open network spawns one connect task with no secret and
\* does nothing else in the foreground (no event, no call, no pending connection, no
\* prompt flag, no change of focus, no await); the call that task issues is
\* add_and_activate_connection on the network's access point with no secret.
C23_OpenConnectsDirectly ==
    [][/\ TogglesNewRow("Open") =>
            /\ tasks' = Append(tasks, NewTask(Len(toggles'),
                                              Unwrap(toggles'[Len(toggles')].row), None))
            /\ events' = events
            /\ calls' = calls
            /\ app' = app
            /\ handler' = None
       /\ \A c \in NewCalls :
            (calls'[c].toggle \in DOMAIN toggles /\ OnNewRow(calls'[c].toggle, "Open")) =>
                /\ calls'[c].op = "add_and_activate_connection"
                /\ calls'[c].target = Unwrap(toggles[calls'[c].toggle].row).ap_path
                /\ calls'[c].password = None
                /\ calls'[c].task /= 0]_vars

\* A toggle on a new Open network has been handled and its task has issued its call.
C23_Witness ==
    \E t \in DOMAIN toggles :
        /\ OnNewRow(t, "Open")
        /\ \E c \in DOMAIN calls : calls[c].toggle = t
        /\ app.focused_block = "NewNetworks"
        /\ app.network_pending_auth = None

\* ------------------------------------------------- Station::disconnect (station.rs 319-341)

\* Station::disconnect is called in this step: toggle_connect suspends on its call.
DisconnectCalled ==
    /\ handler = None
    /\ IsSome(handler')
    /\ Unwrap(handler').op = "toggle_connect"

\* Station::disconnect returns in this step.
DisconnectReturned ==
    /\ IsSome(handler)
    /\ Unwrap(handler).op = "toggle_connect"
    /\ handler' = None

\* C24: Station::disconnect issues one disconnect_device call and, once it is answered,
\* sends one notification, Info when the call succeeded and Error when it failed; the
\* station (known, new and unavailable lists, both selections, connected_network) is the
\* same after the call is issued and after disconnect has returned.
C24_DisconnectOnlyCallsAndNotifies ==
    [][/\ DisconnectCalled =>
            /\ calls' = Append(calls, NewCall([op |-> "disconnect_device", target |-> 0,
                                               password |-> None], Len(toggles'), 0))
            /\ events' = events
            /\ station' = station
       /\ DisconnectReturned =>
            /\ calls' = calls
            /\ events' = Append(events,
                    NotificationEvent(IF calls[Unwrap(handler).call].status = "Ok"
                                      THEN "Info" ELSE "Error",
                                      Unwrap(handler).toggle, 0))
            /\ station' = station]_vars

\* One disconnect has failed and another has succeeded; both have returned, and the
\* station still shows the connected network.
C24_Witness ==
    /\ handler = None
    /\ \E c, d \in CallsOfToggle(1, "disconnect_device") \cup CallsOfToggle(2, "disconnect_device") :
        /\ calls[c].status = "Err"
        /\ calls[d].status = "Ok"
    /\ \E e, f \in DOMAIN events :
        /\ events[e].task = 0 /\ events[e].level = "Error"
        /\ events[f].task = 0 /\ events[f].level = "Info"
    /\ IsSome(Unwrap(station).connected_network)

\* ------------------------------------------------- Station::scan (station.rs 293-317)

\* Most scans requested in a behaviour.
MaxScans == 3

\* The answers of request_scan: Ok, an error whose message contains "Scanning not
\* allowed", or any other error.
ScanAnswers == {"Ok", "Err(Scanning not allowed)", "Err"}

\* A plausible slip: the station is marked as scanning whatever the service answered.
scan_always_scanning(st, answer) ==
    [station |-> [st EXCEPT !.is_scanning = TRUE],
     notification |-> IF answer = "Err" THEN "Error" ELSE "Info",
     ret |-> "Ok"]

\* What Station::scan does once request_scan has answered: the station it leaves, the
\* level of the notification it sends and the Result it returns.
scan(st, answer) ==
    CASE answer = "Ok" ->
            [station |-> [st EXCEPT !.is_scanning = TRUE], notification |-> "Info",
             ret |-> "Ok"]
      [] answer = "Err(Scanning not allowed)" ->
            [station |-> st, notification |-> "Info", ret |-> "Ok"]
      [] OTHER ->
            [station |-> st, notification |-> "Error", ret |-> "Ok"]

\* The scan key in station mode (handler.rs 524-526): station.scan runs to the await of
\* request_scan, in the foreground.
ScanKey ==
    /\ handler = None
    /\ IsSome(station)
    /\ app.focused_block \in {"Device", "KnownNetworks", "NewNetworks"}
    /\ Cardinality({c \in DOMAIN calls : calls[c].op = "request_scan"}) < MaxScans
    /\ calls' = Append(calls, NewCall([op |-> "request_scan", target |-> 0,
                                       password |-> None], 0, 0))
    /\ handler' = Some([op |-> "scan", toggle |-> 0, call |-> Len(calls) + 1, then |-> None])
    /\ UNCHANGED <<fnVars, stationVars, app, toggles, tasks, events, agentVars, modal_keys>>

\* request_scan has answered: Station::scan runs to its return; call_ret keeps its Result.
ScanReturn ==
    /\ IsSome(handler)
    /\ Unwrap(handler).op = "scan"
    /\ calls[Unwrap(handler).call].status /= "pending"
    /\ \E r \in {scan(Unwrap(station), calls[Unwrap(handler).call].status)} :
        /\ station' = Some(r.station)
        /\ events' = Append(events, NotificationEvent(r.notification, 0, 0))
        /\ call_ret' = Some(r.ret)
    /\ handler' = None
    /\ UNCHANGED <<call_args, fetched, app, toggles, tasks, calls, agentVars, modal_keys>>

InitScan ==
    /\ call_args = None
    /\ call_ret = None
    /\ \E fx \in AuthInputs :
        /\ station = StationNew(fx)
        /\ fetched = Fetched("new", fx, "Ok", "none", "none")
    /\ app = AppNew
    /\ IoIdle

NextScan ==
    \/ ScanKey
    \/ ScanReturn
    \/ \E c \in DOMAIN calls, answer \in ScanAnswers : ServiceAnswers(c, answer)
    \/ \E fx \in AuthInputs : Tick(fx)
    \/ FocusTab
    \/ FocusBackTab

SpecScan == InitScan /\ [][NextScan]_vars

\* Station::scan returns in this step.
ScanReturned ==
    /\ IsSome(handler)
    /\ Unwrap(handler).op = "scan"
    /\ handler' = None

\* C25: Station::scan always returns Ok and sends one notification. When request_scan
\* succeeded it sets is_scanning and the notification is Info; when it failed with
\* "Scanning not allowed" the notification is Info, with any other failure Error, and in
\* both failure cases the station, is_scanning included, is left as it was.
C25_ScanOutcome ==
    [][ScanReturned =>
        \E answer \in {calls[Unwrap(handler).call].status} :
            /\ call_ret' = Some("Ok")
            /\ Len(events') = Len(events) + 1
            /\ events'[Len(events')].kind = "Notification"
            /\ events'[Len(events')].level = (IF answer = "Err" THEN "Error" ELSE "Info")
            /\ answer = "Ok" => station' = Some([Unwrap(station) EXCEPT !.is_scanning = TRUE])
            /\ answer /= "Ok" => station' = station]_vars

\* A scan refused for contention and a scan that failed otherwise have returned with
\* is_scanning still false, one with an Info and one with an Error notification.
C25_Witness ==
    /\ handler = None
    /\ IsSome(station)
    /\ ~Unwrap(station).is_scanning
    /\ \E c, d \in DOMAIN calls :
        /\ calls[c].op = "request_scan" /\ calls[c].status = "Err(Scanning not allowed)"
        /\ calls[d].op = "request_scan" /\ calls[d].status = "Err"
    /\ \E e, f \in DOMAIN events : events[e].level = "Info" /\ events[f].level = "Error"
    /\ call_ret = Some("Ok")

\* ------------------------------------------------- AuthAgent::request_* (agent.rs 50-99)

\* Most credential requests in a behaviour.
MaxRequests == 2

RequestOps ==
    {"request_passphrase", "request_private_key_passphrase",
     "request_username_and_password", "request_password"}

UserNames == {None, Some("user")}

\* request_passphrase on the agent flags ag: the flags it leaves, the event it sends and
\* the Result it returns (the event channel is open, so the send succeeds).
request_passphrase(ag, network_name) ==
    [agent |-> [ag EXCEPT !.psk_required = TRUE],
     event |-> HandlerEvent("Auth", network_name, 0),
     ret |-> "Ok"]

request_private_key_passphrase(ag, network_name) ==
    [agent |-> [ag EXCEPT !.private_key_passphrase_required = TRUE],
     event |-> HandlerEvent("AuthReqKeyPassphrase", network_name, 0),
     ret |-> "Ok"]

request_username_and_password(ag, network_name) ==
    [agent |-> [ag EXCEPT !.username_and_password_required = TRUE],
     event |-> HandlerEvent("AuthReqUsernameAndPassword", network_name, 0),
     ret |-> "Ok"]

\* A plausible slip: the flag of the username-and-password prompt is set as well.
request_password_sets_both(ag, network_name, user_name) ==
    [agent |-> [ag EXCEPT !.password_required = TRUE,
                          !.username_and_password_required = TRUE],
     event |-> HandlerEvent("AuthRequestPassword", <<network_name, user_name>>, 0),
     ret |-> "Ok"]

request_password(ag, network_name, user_name) ==
    [agent |-> [ag EXCEPT !.password_required = TRUE],
     event |-> HandlerEvent("AuthRequestPassword", <<network_name, user_name>>, 0),
     ret |-> "Ok"]

\* One of the four request functions is called with the network name and, for
\* request_password, the user name; call_args keeps the call and its number, call_ret
\* the Result returned.
Request(op, network_name, user_name) ==
    /\ (IF IsSome(call_args) THEN Unwrap(call_args).n ELSE 0) < MaxRequests
    /\ op /= "request_password" => user_name = None
    /\ \E r \in {CASE op = "request_passphrase" -> request_passphrase(app.agent, network_name)
                   [] op = "request_private_key_passphrase"
                        -> request_private_key_passphrase(app.agent, network_name)
                   [] op = "request_username_and_password"
                        -> request_username_and_password(app.agent, network_name)
                   [] op = "request_password"
                        -> request_password(app.agent, network_name, user_name)} :
        /\ app' = [app EXCEPT !.agent = r.agent]
        /\ events' = Append(events, r.event)
        /\ call_ret' = Some(r.ret)
    /\ call_args' = Some([op |-> op, network_name |-> network_name, user_name |-> user_name,
                          n |-> IF IsSome(call_args) THEN Unwrap(call_args).n + 1 ELSE 1])
    /\ UNCHANGED <<stationVars, handler, toggles, tasks, calls, agentVars, modal_keys>>

NextRequest ==
    \/ \E op \in RequestOps, network_name \in Ssids, user_name \in UserNames :
            Request(op, network_name, user_name)
    \/ Reset

SpecRequest == InitAgent /\ [][NextRequest]_vars

\* A request function is called in this step.
RequestCalled == call_args' /= call_args

FlagOf(op) ==
    CASE op = "request_passphrase" -> "psk_required"
      [] op = "request_private_key_passphrase" -> "private_key_passphrase_required"
      [] op = "request_username_and_password" -> "username_and_password_required"
      [] op = "request_password" -> "password_required"

EventKindOf(op) ==
    CASE op = "request_passphrase" -> "Auth"
      [] op = "request_private_key_passphrase" -> "AuthReqKeyPassphrase"
      [] op = "request_username_and_password" -> "AuthReqUsernameAndPassword"
      [] op = "request_password" -> "AuthRequestPassword"

\* C26: each request function sets its own flag and leaves the other three as they were,
\* sends exactly one event, of its own kind and carrying the network name, and returns Ok
\* at once: nothing is sent on or received from the agent's channels and no wait begins.
C26_RequestSetsOwnFlagAndEmits ==
    [][RequestCalled =>
        \E c \in {Unwrap(call_args')} :
            /\ app'.agent = [app.agent EXCEPT ![FlagOf(c.op)] = TRUE]
            /\ Len(events') = Len(events) + 1
            /\ SubSeq(events', 1, Len(events)) = events
            /\ events'[Len(events')].kind = EventKindOf(c.op)
            /\ events'[Len(events')].name
                    = (IF c.op = "request_password" THEN <<c.network_name, c.user_name>>
                       ELSE c.network_name)
            /\ call_ret' = Some("Ok")
            /\ channels' = channels
            /\ waits' = waits
            /\ handler' = None]_vars

\* Two different requests have been made: two flags are set, the others are clear.
C26_Witness ==
    /\ Len(events) = 2
    /\ events[1].kind = "AuthRequestPassword"
    /\ events[2].kind = "Auth"
    /\ app.agent = [NoFlags EXCEPT !.password_required = TRUE, !.psk_required = TRUE]

\* C27: a credential request made while another one is pending (a flag is still set) is
\* rejected: it does not return Ok, sets no flag and sends no event.
C27_SecondRequestRejected ==
    [][(RequestCalled /\ app.agent /= NoFlags) =>
        /\ call_ret' /= Some("Ok")
        /\ app'.agent = app.agent
        /\ events' = events]_vars

\* ------------------------------------------------- categorize_networks: the connected network

FLAGS_PRIVACY == 1
KEY_MGMT_802_1X == 512
KEY_MGMT_SAE == 1024

\* Width of the flag words (u32).
FlagWidth == 32

\* x & y on words of n bits.
RECURSIVE BitAnd(_, _, _)
BitAnd(x, y, n) ==
    IF n = 0 THEN 0
    ELSE (IF x % 2 = 1 /\ y % 2 = 1 THEN 1 ELSE 0) + 2 * BitAnd(x \div 2, y \div 2, n - 1)

\* A plausible slip: the SAE test comes before the enterprise test.
from_flags_sae_first(flags, wpa_flags, rsn_flags) ==
    LET has_privacy == BitAnd(flags, FLAGS_PRIVACY, FlagWidth) /= 0 IN
    IF BitAnd(rsn_flags, KEY_MGMT_SAE, FlagWidth) /= 0 THEN "WPA3"
    ELSE IF BitAnd(wpa_flags, KEY_MGMT_802_1X, FlagWidth) /= 0
            \/ BitAnd(rsn_flags, KEY_MGMT_802_1X, FlagWidth) /= 0
    THEN "Enterprise"
    ELSE IF rsn_flags /= 0 THEN "WPA2"
    ELSE IF wpa_flags /= 0 THEN "WPA"
    ELSE IF has_privacy THEN "WEP"
    ELSE "Open"

from_flags(flags, wpa_flags, rsn_flags) ==
    LET has_privacy == BitAnd(flags, FLAGS_PRIVACY, FlagWidth) /= 0 IN
    IF BitAnd(wpa_flags, KEY_MGMT_802_1X, FlagWidth) /= 0
       \/ BitAnd(rsn_flags, KEY_MGMT_802_1X, FlagWidth) /= 0
    THEN "Enterprise"
    ELSE IF rsn_flags /= 0
         THEN IF BitAnd(rsn_flags, KEY_MGMT_SAE, FlagWidth) /= 0 THEN "WPA3" ELSE "WPA2"
         ELSE IF wpa_flags /= 0 THEN "WPA"
              ELSE IF has_privacy THEN "WEP"
                   ELSE "Open"

\* The flag words from_flags is applied to: every combination of the three bits the
\* function tests, of one low bit it does not test (0x8) and of one high bit (0x40000000).
FlagWords ==
    {a + b + c + d + e : a \in {0, 1}, b \in {0, 8}, c \in {0, 512}, d \in {0, 1024},
                         e \in {0, 1073741824}}

InitFromFlags ==
    /\ call_args \in [flags : FlagWords, wpa_flags : FlagWords, rsn_flags : FlagWords]
    /\ call_ret = None
    /\ station = None
    /\ fetched = None
    /\ app = None
    /\ IoIdle

CallFromFlags ==
    /\ call_ret = None
    /\ call_ret' = Some(from_flags(call_args.flags, call_args.wpa_flags, call_args.rsn_flags))
    /\ UNCHANGED <<call_args, station, fetched, app, ioVars, agentVars>>

NextFromFlags == CallFromFlags

SpecFromFlags == InitFromFlags /\ [][NextFromFlags]_vars

\* Bit b (a power of two) is set in the word x.
HasBit(x, b) == (x \div b) % 2 = 1

\* C29: from_flags classifies by a fixed priority: Enterprise if bit 0x200 is set in
\* wpa_flags or rsn_flags; else WPA3 if rsn_flags has bit 0x400; else WPA2 if rsn_flags is
\* not zero; else WPA if wpa_flags is not zero; else WEP if bit 0x1 of flags is set; else
\* Open.
C29_FromFlagsPriority ==
    IsSome(call_ret) =>
        Unwrap(call_ret) =
            CASE HasBit(call_args.wpa_flags, 512) \/ HasBit(call_args.rsn_flags, 512)
                    -> "Enterprise"
              [] OTHER ->
            CASE HasBit(call_args.rsn_flags, 1024) -> "WPA3"
              [] OTHER ->
            CASE call_args.rsn_flags /= 0 -> "WPA2"
              [] OTHER ->
            CASE call_args.wpa_flags /= 0 -> "WPA"
              [] OTHER ->
            CASE HasBit(call_args.flags, 1) -> "WEP"
              [] OTHER -> "Open"

\* A word with both the 802.1X and the SAE bit, privacy set, was classified Enterprise.
C29_Witness ==
    /\ call_ret = Some("Enterprise")
    /\ HasBit(call_args.rsn_flags, 1024)
    /\ HasBit(call_args.rsn_flags, 512)
    /\ ~HasBit(call_args.wpa_flags, 512)
    /\ HasBit(call_args.flags, 1)

\* ------------------------------------------------- specification: acting on a known-table row

\* The answers Station::new gets here: the ethernet row may be present, the scan may be
\* empty, and the device is activated exactly when it reports an SSID.
KnownRowInputs ==
    {fx \in [fail : {"none"},
             device_state : {"Activated", "Disconnected"},
             ethernet : EthernetAnswers,
             connected_ssid : ConnectedSsids,
             aps : TickScans,
             saved : TickSaved,
             active_ap : {None}] :
        /\ (fx.device_state = "Activated") = IsSome(fx.connected_ssid)
        /\ \A i \in DOMAIN fx.saved : fx.saved[i].autoconnect}

InitKnownRow ==
    /\ call_args = None
    /\ call_ret = None
    /\ \E fx \in KnownRowInputs :
        /\ station = StationNew(fx)
        /\ fetched = Fetched("new", fx, "Ok", "none", "none")
    /\ app = AppNew
    /\ IoIdle

NextKnownRow ==
    \/ ToggleConnect
    \/ DisconnectReturn
    \/ \E c \in DOMAIN calls, answer \in {"Ok", "Err"} : ServiceAnswers(c, answer)
    \/ KnownScrollDown
    \/ KnownScrollUp
    \/ ToggleShowUnavailable

SpecKnownRow == InitKnownRow /\ [][NextKnownRow]_vars

\* This step is toggle_connect invoked with the known table focused.
KnownToggleStep == toggles' /= toggles /\ app.focused_block = "KnownNetworks"

\* The step spawned no task, issued no call, sent no event and left no handler suspended
\* or panicked.
ToggleIsNoOp ==
    /\ tasks' = tasks
    /\ calls' = calls
    /\ events' = events
    /\ handler' = None

\* The step did to the network named name what toggle_connect does to a known network:
\* disconnect when it is the connected one, disconnect and then connect to it when another
\* one is connected, connect to it when none is.
ToggleActsOn(name) ==
    LET st == Unwrap(station) IN
    IF IsSome(st.connected_network)
    THEN /\ Len(calls') = Len(calls) + 1
         /\ calls'[Len(calls')].op = "disconnect_device"
         /\ tasks' = tasks
         /\ IsSome(handler')
         /\ Unwrap(handler').op = "toggle_connect"
         /\ IF name = Unwrap(st.connected_network).name
            THEN Unwrap(handler').then = None
            ELSE /\ IsSome(Unwrap(handler').then)
                 /\ Unwrap(Unwrap(handler').then).name = name
    ELSE /\ calls' = calls
         /\ handler' = None
         /\ Len(tasks') = Len(tasks) + 1
         /\ tasks'[Len(tasks')].net.name = name

\* C30: toggle_connect with the known table focused acts on the row resolve_known_selection
\* maps the selected index to: nothing happens on the ethernet row, on an unavailable row
\* and on no row, and on Network(k) the action is applied to known_networks[k].
C30_KnownActionUsesResolvedRow ==
    [][KnownToggleStep =>
         LET st == Unwrap(station)
             sel == resolve_known_selection(st)
         IN IF IsSome(sel) /\ Unwrap(sel).kind = "Network"
            THEN ToggleActsOn(st.known_networks[Unwrap(sel).index + 1].net.name)
            ELSE ToggleIsNoOp]_vars

\* ------------------------------------------------- the known-table selection and the rows

\* Station::known_networks_total_rows.
known_networks_total_rows(st) ==
    LET ethernet_offset == IF st.is_ethernet_connected THEN 1 ELSE 0
        unavail == IF st.show_unavailable_known_networks
                   THEN Len(st.unavailable_known_networks) ELSE 0
    IN ethernet_offset + Len(st.known_networks) + unavail

\* The index at which the remove and the share handlers read unavailable_known_networks
\* (handler.rs 545-550, 599-604): none when they read known_networks instead. The list is
\* not empty here, so len() - 1 does not underflow.
unavailable_index(st) ==
    IF ~IsSome(st.known_networks_state) \/ st.known_networks = <<>> THEN None
    ELSE LET net_index == Unwrap(st.known_networks_state) IN
         IF net_index > Len(st.known_networks) - 1
         THEN Some(net_index - Len(st.known_networks))
         ELSE None

\* C31: the known-table selection is None or an index smaller than
\* known_networks_total_rows(), and the index at which remove and share read
\* unavailable_known_networks is inside that list.
C31_KnownSelectionWithinRows ==
    IsSome(station) =>
        LET st == Unwrap(station) IN
        /\ IsSome(st.known_networks_state)
              => Unwrap(st.known_networks_state) < known_networks_total_rows(st)
        /\ IsSome(unavailable_index(st))
              => Unwrap(unavailable_index(st)) < Len(st.unavailable_known_networks)

\* C32: the known-table selection is Some only while known_networks is not empty.
C32_KnownSelectionOnlyOnRows ==
    IsSome(station) =>
        (IsSome(Unwrap(station).known_networks_state) => Unwrap(station).known_networks /= <<>>)

\* A refresh emptied known_networks under a cursor that had been moved to index 1.
C32_Witness ==
    /\ IsSome(station)
    /\ fetched.op = "refresh" /\ fetched.result = "Ok" /\ fetched.known_path = "replaced"
    /\ Unwrap(station).known_networks = <<>>
    /\ Unwrap(station).known_networks_state = None
    /\ Unwrap(station).unavailable_known_networks /= <<>>

\* ------------------------------------------------- specification: the new-table selection

\* The show_all key with the new table focused (handler.rs 724-730).
ToggleShowHidden ==
    /\ handler = None
    /\ IsSome(station)
    /\ app.focused_block = "NewNetworks"
    /\ station' = Some([Unwrap(station) EXCEPT !.show_hidden_networks = ~@])
    /\ UNCHANGED <<call_args, call_ret, fetched, app, ioVars, agentVars>>

\* The answers of a tick here: every scan and every list of profiles, no ethernet.
NewTableInputs ==
    {fx \in TickInputs : /\ fx.ethernet = [ok |-> TRUE, val |-> FALSE]
                         /\ \A i \in DOMAIN fx.saved : fx.saved[i].autoconnect}

InitNewTable ==
    /\ call_args = None
    /\ call_ret = None
    /\ \E fx \in NewTableInputs :
        /\ station = StationNew(fx)
        /\ fetched = Fetched("new", fx, "Ok", "none", "none")
    /\ app = AppNew
    /\ IoIdle

NextNewTable ==
    \/ \E fx \in NewTableInputs : Tick(fx)
    \/ NewScrollDown
    \/ NewScrollUp
    \/ ToggleShowHidden
    \/ FocusTab
    \/ FocusBackTab

SpecNewTable == InitNewTable /\ [][NextNewTable]_vars

\* C33: the new-table selection is None or an index smaller than new_networks.len(), so
\* toggle_connect with the new table focused takes neither the hidden-network branch nor
\* an out-of-bounds index.
C33_NewSelectionOnNewRows ==
    IsSome(station) =>
        LET st == Unwrap(station) IN
        /\ IsSome(st.new_networks_state)
              => Unwrap(st.new_networks_state) < Len(st.new_networks)
        /\ toggle_connect([app EXCEPT !.focused_block = "NewNetworks"], st).kind
              \notin {"panic", "notify_hidden"}

\* The cursor is on the last of two new networks with the hidden networks shown, after a
\* refresh that kept the list.
C33_Witness ==
    /\ IsSome(station)
    /\ fetched.op = "refresh" /\ fetched.new_path = "merged"
    /\ Unwrap(station).show_hidden_networks
    /\ Len(Unwrap(station).new_networks) = 2
    /\ Unwrap(station).new_networks_state = Some(1)

\* ------------------------------------------------- specification: refresh ticks that may fail

\* The fetches of Station::refresh that come after the device state and before the lists
\* are touched.
ListFetches == {"connected_ssid", "visible_networks", "saved_connections"}

\* The answers of the service to a tick here: one of those fetches may fail, the scan is
\* empty or begins with "A", the profiles are none or begin with that of "A" (autoconnect
\* set), and the device is activated exactly when it reports the active SSID "A".
FailingInputs ==
    {fx \in [fail : {"none"} \cup ListFetches,
             device_state : {"Activated", "Disconnected"},
             ethernet : {[ok |-> TRUE, val |-> FALSE]},
             connected_ssid : {None, Some("A")},
             aps : {s \in TickScans : /\ \A i \in DOMAIN s : s[i].strength = 1
                                      /\ s /= <<>> => s[1].ssid = "A"},
             saved : {s \in TickSaved : /\ \A i \in DOMAIN s : s[i].autoconnect
                                        /\ s /= <<>> => s[1].ssid = "A"},
             active_ap : {None}] :
        (fx.device_state = "Activated") = IsSome(fx.connected_ssid)}

InitFailing ==
    /\ call_args = None
    /\ call_ret = None
    /\ \E fx \in FailingInputs :
        /\ station = StationNew(fx)
        /\ fetched = Fetched("new", fx, IF IsSome(StationNew(fx)) THEN "Ok" ELSE "Err",
                             "none", "none")
    /\ app = AppNew
    /\ IoIdle

NextFailing ==
    \/ \E fx \in FailingInputs : Tick(fx)
    \/ KnownScrollDown
    \/ KnownScrollUp
    \/ ToggleShowUnavailable

SpecFailing == InitFailing /\ [][NextFailing]_vars

\* This step is a pass of Station::refresh in which one of those fetches failed.
FailedFetchStep ==
    /\ IsSome(station)
    /\ fetched' /= fetched
    /\ fetched'.op = "refresh"
    /\ fetched'.fx.fail \in ListFetches

\* C34: a refresh that fails while fetching the connected SSID, the visible networks or the
\* saved profiles returns an error and leaves new_networks, known_networks,
\* unavailable_known_networks, both table selections, connected_network and diagnostic as
\* they were.
C34_FailedFetchKeepsLists ==
    [][FailedFetchStep =>
        /\ fetched'.result = "Err"
        /\ IsSome(station')
        /\ \A f \in {"new_networks", "known_networks", "unavailable_known_networks",
                     "new_networks_state", "known_networks_state", "connected_network",
                     "diagnostic"} :
                Unwrap(station')[f] = Unwrap(station)[f]]_vars

\* A failed pass left a connected station with its cursor on the second known row, though
\* the answers it was given report no connection and no access point in range.
C34_Witness ==
    /\ IsSome(station)
    /\ fetched.op = "refresh" /\ fetched.result = "Err" /\ fetched.fx.fail \in ListFetches
    /\ fetched.fx.connected_ssid = None /\ fetched.fx.aps = <<>>
    /\ IsSome(Unwrap(station).connected_network)
    /\ Unwrap(station).known_networks_state = Some(1)

\* ------------------------------------------------- specification: passphrase request cycles

\* A task calls wait_for_passphrase and suspends. queued_before is history: how many of the
\* passphrases that were queued when the wait began are still in the queue (they are at
\* its head).
PassphraseWaitBegin ==
    /\ Len(waits) < MaxWaits
    /\ waits' = Append(waits, NewWait("passphrase", channels)
                              @@ [queued_before |-> Len(channels.passphrase)])
    /\ UNCHANGED <<fnVars, stationVars, app, ioVars, channels>>

\* The select of wait i completes and wait_for_passphrase returns; a received passphrase
\* leaves the head of the queue the other waits see.
PassphraseWaitReturn(i) ==
    /\ waits[i].pc = "suspended"
    /\ \E o \in wait_for_passphrase(channels) :
        /\ waits' = [j \in DOMAIN waits |->
                        IF j = i THEN [waits[i] EXCEPT !.pc = "returned", !.ret = o.ret]
                        ELSE IF /\ IsSome(o.ret)
                                /\ waits[j].pc = "suspended"
                                /\ waits[j].queued_before > 0
                             THEN [waits[j] EXCEPT !.queued_before = @ - 1]
                             ELSE waits[j]]
        /\ channels' = o.channels
    /\ UNCHANGED <<fnVars, stationVars, app, ioVars>>

NextCycle ==
    \/ PassphraseWaitBegin
    \/ \E i \in DOMAIN waits : PassphraseWaitReturn(i)
    \/ \E v \in AgentPassphrases : SendPassphrase(v)
    \/ Cancel
    \/ Reset

SpecCycle == InitAgent /\ [][NextCycle]_vars

\* C35: wait_for_passphrase returns Some(v) only for a value sent after that wait began:
\* a wait that returned a value began with no passphrase of an earlier cycle left at the
\* head of the channel, whether or not reset() ran in between.
C35_WaitReturnsOnlyFreshValue ==
    \A i \in DOMAIN waits :
        (waits[i].pc = "returned" /\ IsSome(waits[i].ret)) => waits[i].queued_before = 0

\* ------------------------------------------------- equal strengths in get_visible_networks

\* C36: when several scanned access points share an SSID and the strength of the entry
\* kept for it, get_visible_networks keeps the first of them in scan order (the object
\* path of a scanned access point is its position in the scan).
C36_FirstOfEqualStrengthKept ==
    IsSome(call_ret) =>
        \A i \in DOMAIN Unwrap(call_ret) :
            \A j \in DOMAIN call_args :
                (/\ call_args[j].ok
                 /\ call_args[j].ssid = Unwrap(call_ret)[i].ssid
                 /\ call_args[j].strength = Unwrap(call_ret)[i].strength)
                    => Unwrap(call_ret)[i].path <= call_args[j].path

\* Three access points of one SSID were scanned, the last two as strong as each other and
\* stronger than the first; the second was kept.
C36_Witness ==
    /\ IsSome(call_ret)
    /\ Len(call_args) = 3
    /\ \A j \in DOMAIN call_args : call_args[j].ok /\ call_args[j].ssid = "A"
    /\ call_args[1].strength < call_args[2].strength
    /\ call_args[2].strength = call_args[3].strength
    /\ Len(Unwrap(call_ret)) = 1
    /\ Unwrap(call_ret)[1].path = 2

\* ------------------------------------------------- KnownNetwork::toggle_autoconnect

\* A plausible slip: the local flag is flipped before the service has answered and is not
\* put back when the call fails.
toggle_autoconnect_optimistic(known, answer) ==
    [known |-> [known EXCEPT !.is_autoconnect = ~@],
     notification |-> IF answer = "Ok" THEN "Info" ELSE "Error",
     ret |-> "Ok"]

\* KnownNetwork::toggle_autoconnect once set_connection_autoconnect has answered
\* (known_network.rs 64-86): the profile afterwards, the level of the notification sent
\* and the Result returned. The event channel has a receiver for as long as the program
\* runs, so the sends succeed.
toggle_autoconnect(known, answer) ==
    IF answer = "Ok"
    THEN [known |-> [known EXCEPT !.is_autoconnect = ~@], notification |-> "Info", ret |-> "Ok"]
    ELSE [known |-> known, notification |-> "Error", ret |-> "Ok"]

\* The toggle_autoconnect key with the known table focused (handler.rs 620-639), up to the
\* await of set_connection_autoconnect: nothing happens unless the selected index is a row
\* of known_networks that has a saved profile.
KnownToggleAutoconnect ==
    /\ handler = None
    /\ IsSome(station)
    /\ app.focused_block = "KnownNetworks"
    /\ Len(calls) < MaxToggles
    /\ LET st == Unwrap(station) IN
       /\ IsSome(st.known_networks_state)
       /\ Unwrap(st.known_networks_state) < Len(st.known_networks)
       /\ \E row \in {Unwrap(st.known_networks_state) + 1} :
           /\ IsSome(st.known_networks[row].net.known_network)
           /\ calls' = Append(calls,
                    NewCall([op |-> "set_connection_autoconnect",
                             target |-> Unwrap(st.known_networks[row].net.known_network)
                                            .connection_path,
                             password |-> None], 0, 0))
           /\ handler' = Some([op |-> "toggle_autoconnect", row |-> row,
                               call |-> Len(calls) + 1])
    /\ UNCHANGED <<call_args, call_ret, station, fetched, app, toggles, tasks, events,
                 agentVars, modal_keys>>

\* set_connection_autoconnect has answered: toggle_autoconnect runs to its return and the
\* key handler with it.
AutoconnectReturn ==
    /\ IsSome(handler)
    /\ Unwrap(handler).op = "toggle_autoconnect"
    /\ calls[Unwrap(handler).call].status /= "pending"
    /\ \E h \in {Unwrap(handler)} :
       \E r \in {toggle_autoconnect(
                    Unwrap(Unwrap(station).known_networks[h.row].net.known_network),
                    calls[h.call].status)} :
        /\ station' = Some([Unwrap(station) EXCEPT
                                !.known_networks[h.row].net.known_network = Some(r.known)])
        /\ events' = Append(events, NotificationEvent(r.notification, 0, 0))
        /\ call_ret' = Some(r.ret)
        /\ handler' = None
    /\ UNCHANGED <<call_args, fetched, app, toggles, tasks, calls, agentVars, modal_keys>>

NextAutoconnect ==
    \/ KnownToggleAutoconnect
    \/ AutoconnectReturn
    \/ \E c \in DOMAIN calls, answer \in {"Ok", "Err"} : ServiceAnswers(c, answer)
    \/ KnownScrollDown
    \/ KnownScrollUp
    \/ ToggleShowUnavailable

SpecAutoconnect == InitKnownRow /\ [][NextAutoconnect]_vars

\* This step is the return of a toggle_autoconnect.
AutoconnectReturned ==
    /\ IsSome(handler)
    /\ Unwrap(handler).op = "toggle_autoconnect"
    /\ handler' = None

\* The is_autoconnect flag of the profile of row r of known_networks.
AutoconnectOf(st, r) == Unwrap(Unwrap(st).known_networks[r].net.known_network).is_autoconnect

\* C37: toggle_autoconnect flips the local is_autoconnect flag iff the service accepted the
\* update; when the service call fails the flag is unchanged and an Error notification is
\* sent; either way one notification is sent and the operation returns Ok.
C37_AutoconnectFlipsIffAccepted ==
    [][AutoconnectReturned =>
        LET h == Unwrap(handler)
            accepted == calls[h.call].status = "Ok"
        IN /\ (AutoconnectOf(station', h.row) /= AutoconnectOf(station, h.row)) <=> accepted
           /\ Len(events') = Len(events) + 1
           /\ events'[Len(events')].kind = "Notification"
           /\ events'[Len(events')].level = (IF accepted THEN "Info" ELSE "Error")
           /\ call_ret' = Some("Ok")]_vars

\* Both outcomes have happened: one toggle was refused and one accepted, and the flag of
\* the profile differs from the one the service reported when the station was built.
C37_Witness ==
    /\ handler = None
    /\ Len(calls) = 2
    /\ {calls[1].status, calls[2].status} = {"Ok", "Err"}
    /\ Len(events) = 2
    /\ \E r \in DOMAIN Unwrap(station).known_networks :
        \E i \in DOMAIN fetched.fx.saved :
            /\ fetched.fx.saved[i].ssid = Unwrap(station).known_networks[r].net.name
            /\ fetched.fx.saved[i].autoconnect /= AutoconnectOf(station, r)

\* ------------------------------------------------- the hidden-network dialog (hidden.rs, handler.rs 245-330)

\* Most connections to a hidden network started in a behaviour.
MaxHiddenConnects == 1

\* The characters typed into the dialog.
HiddenChars == {"a"}

\* HiddenSsidDialog::reset.
hidden_reset(d) ==
    [d EXCEPT !.ssid = <<>>, !.password = <<>>, !.security = "WPA2",
              !.focused_field = "Ssid", !.show_password = TRUE]

\* HiddenSsidDialog::cycle_security_next.
cycle_security_next(d) ==
    [d EXCEPT !.security = CASE @ = "Open" -> "WPA2"
                             [] @ = "WPA2" -> "WPA3"
                             [] @ = "WPA3" -> "Open"
                             [] OTHER -> "WPA2"]

\* HiddenSsidDialog::cycle_security_prev.
cycle_security_prev(d) ==
    [d EXCEPT !.security = CASE @ = "Open" -> "WPA3"
                             [] @ = "WPA2" -> "Open"
                             [] @ = "WPA3" -> "WPA2"
                             [] OTHER -> "WPA2"]

\* A plausible slip: Tab on the Security field goes to the Password field whatever the
\* security.
next_field_ignores_open(d) ==
    [d EXCEPT !.focused_field = CASE @ = "Ssid" -> "Security"
                                  [] @ = "Security" -> "Password"
                                  [] @ = "Password" -> "Ssid"]

\* HiddenSsidDialog::next_field.
next_field(d) ==
    [d EXCEPT !.focused_field = CASE @ = "Ssid" -> "Security"
                                  [] @ = "Security"
                                        -> IF d.security = "Open" THEN "Ssid" ELSE "Password"
                                  [] @ = "Password" -> "Ssid"]

\* HiddenSsidDialog::prev_field.
prev_field(d) ==
    [d EXCEPT !.focused_field = CASE @ = "Ssid"
                                        -> IF d.security = "Open" THEN "Security"
                                           ELSE "Password"
                                  [] @ = "Security" -> "Ssid"
                                  [] @ = "Password" -> "Security"]

\* HiddenSsidDialog::requires_password.
hidden_requires_password(d) == d.security /= "Open"

\* The connect_hidden key with the new table focused (handler.rs 731-736).
ConnectHiddenKey ==
    /\ handler = None
    /\ IsSome(station)
    /\ app.focused_block = "NewNetworks"
    /\ app' = [app EXCEPT !.focused_block = "HiddenSsidInput"]
    /\ UNCHANGED <<fnVars, stationVars, ioVars, agentVars>>

\* Key Enter in the dialog (handler.rs 246-285): with an SSID typed, the dialog is reset,
\* the focus returns to the new table and a task is spawned that connects to the hidden
\* network; with none, nothing happens.
HiddenEnter ==
    /\ handler = None
    /\ IsSome(station)
    /\ app.focused_block = "HiddenSsidInput"
    /\ Len(tasks) < MaxHiddenConnects
    /\ IF app.hidden.ssid /= <<>>
       THEN /\ tasks' = Append(tasks,
                    NewTask(0, [name |-> app.hidden.ssid, network_type |-> app.hidden.security],
                            IF hidden_requires_password(app.hidden)
                            THEN Some(app.hidden.password) ELSE None))
            /\ app' = [app EXCEPT !.hidden = hidden_reset(@),
                                  !.focused_block = "NewNetworks"]
       ELSE UNCHANGED <<tasks, app>>
    /\ UNCHANGED <<fnVars, stationVars, handler, toggles, calls, events, modal_keys,
                 agentVars>>

\* Key Tab in the dialog (handler.rs 287-289).
HiddenTab ==
    /\ handler = None
    /\ IsSome(station)
    /\ app.focused_block = "HiddenSsidInput"
    /\ app' = [app EXCEPT !.hidden = next_field(@)]
    /\ UNCHANGED <<fnVars, stationVars, ioVars, agentVars>>

\* Key BackTab in the dialog (handler.rs 291-293).
HiddenBackTab ==
    /\ handler = None
    /\ IsSome(station)
    /\ app.focused_block = "HiddenSsidInput"
    /\ app' = [app EXCEPT !.hidden = prev_field(@)]
    /\ UNCHANGED <<fnVars, stationVars, ioVars, agentVars>>

\* Key Left or Right in the dialog (handler.rs 295-303): with the Security field focused
\* the security is cycled. The method the handler names is one of the two cycling
\* methods of the dialog; either may be the one that runs.
HiddenCycleSecurity ==
    /\ handler = None
    /\ IsSome(station)
    /\ app.focused_block = "HiddenSsidInput"
    /\ app.hidden.focused_field = "Security"
    /\ \E d \in {cycle_security_next(app.hidden), cycle_security_prev(app.hidden)} :
        app' = [app EXCEPT !.hidden = d]
    /\ UNCHANGED <<fnVars, stationVars, ioVars, agentVars>>

\* Key Esc in the dialog (handler.rs 306-309).
HiddenEsc ==
    /\ handler = None
    /\ IsSome(station)
    /\ app.focused_block = "HiddenSsidInput"
    /\ app' = [app EXCEPT !.hidden = hidden_reset(@), !.focused_block = "NewNetworks"]
    /\ UNCHANGED <<fnVars, stationVars, ioVars, agentVars>>

\* Ctrl-h in the dialog (handler.rs 311-313).
HiddenToggleShowPassword ==
    /\ handler = None
    /\ IsSome(station)
    /\ app.focused_block = "HiddenSsidInput"
    /\ app' = [app EXCEPT !.hidden.show_password = ~@]
    /\ UNCHANGED <<fnVars, stationVars, ioVars, agentVars>>

\* Any other key in the dialog (handler.rs 315-329): a character is typed into the input
\* of the focused field; the Security field takes none.
HiddenType(c) ==
    /\ handler = None
    /\ IsSome(station)
    /\ app.focused_block = "HiddenSsidInput"
    /\ \/ /\ app.hidden.focused_field = "Ssid"
          /\ Len(app.hidden.ssid) < MaxTyped
          /\ app' = [app EXCEPT !.hidden.ssid = Append(@, c)]
       \/ /\ app.hidden.focused_field = "Password"
          /\ Len(app.hidden.password) < MaxTyped
          /\ app' = [app EXCEPT !.hidden.password = Append(@, c)]
    /\ UNCHANGED <<fnVars, stationVars, ioVars, agentVars>>

NextHidden ==
    \/ ConnectHiddenKey
    \/ HiddenEnter
    \/ HiddenTab
    \/ HiddenBackTab
    \/ HiddenCycleSecurity
    \/ HiddenEsc
    \/ HiddenToggleShowPassword
    \/ \E c \in HiddenChars : HiddenType(c)
    \/ FocusTab
    \/ FocusBackTab

SpecHidden == InitAuth /\ [][NextHidden]_vars

\* C38: in the hidden-network dialog the Password field is never focused while the
\* security is Open, and next_field followed by prev_field returns to the field it
\* started from.
C38_PasswordFieldNeedsSecurity ==
    (app /= None) =>
        /\ ~(app.hidden.focused_field = "Password" /\ app.hidden.security = "Open")
        /\ prev_field(next_field(app.hidden)).focused_field = app.hidden.focused_field

\* The dialog is open with the security cycled to Open and the focus back on the SSID
\* field after a Tab from the Security field.
C38_Witness ==
    /\ app /= None
    /\ app.focused_block = "HiddenSsidInput"
    /\ app.hidden.security = "Open"
    /\ app.hidden.focused_field = "Ssid"
    /\ app.hidden.ssid /= <<>>
    /\ Len(tasks) = 1
====
